---- MODULE Spec2Model ----
(***************************************************************************)
(* Model of the baby-emoji-generator backend: the /upload pipeline         *)
(* (backend/app/main.py), the OpenRouter client's HTTP re-issue rule       *)
(* (backend/app/ai/openrouter_client.py) and the caption safety filter     *)
(* (backend/app/processing/safety.py, captions_fallback.py).               *)
(*                                                                         *)
(* Text is a sequence of code points.  An ASCII code point is written as   *)
(* itself ("a", " ", "."), any other one as "uXXXX" (its hexadecimal code  *)
(* point), so "u6536" "u5230" is the two-character default caption.        *)
(* The six expression labels are written happy, wronged, angry, shocked,   *)
(* sleepy, uncertain, in the order of ExpressionLabel in the source.       *)
(***************************************************************************)
EXTENDS Integers, Sequences, FiniteSets, TLC

\* ------------------------------------------------------------------------
\* captions_fallback.py
\* ------------------------------------------------------------------------

ExpressionLabels == {"happy", "wronged", "angry", "shocked", "sleepy", "uncertain"}

CAPTIONS_FALLBACK ==
    "happy" :> <<
         <<"u563F", "u563F", "uFF0C", "u5F00", "u5FC3", "uFF01">>,
         <<"u4ECA", "u5929", "u4E5F", "u592A", "u5FEB", "u4E50", "u4E86">>,
         <<"u597D", "u8036", "uFF01">>,
         <<"u6211", "u8D85", "u6EE1", "u610F">>,
         <<"u5FEB", "u4E50", "u52A0", "u8F7D", "u4E2D">>,
         <<"u7B11", "u5230", "u505C", "u4E0D", "u4E0B", "u6765">>,
         <<"u5B89", "u6392", "uFF01">>,
         <<"u8FD9", "u4E5F", "u592A", "u597D", "u73A9", "u4E86">>,
         <<"u6211", "u53EF", "u4EE5", "uFF01">>,
         <<"u5FC3", "u60C5", "uFF1A", "u6674", "u5929">>,
         <<"u5F00", "u5FC3", "u5230", "u8F6C", "u5708", "u5708">>,
         <<"u8FD9", "u6CE2", "u7A33", "u4E86">>
       >>
    @@ "wronged" :> <<
         <<"u6211", "u54EA", "u6709", "u561B">>,
         <<"u6211", "u53EA", "u662F", "u5C0F", "u5C0F", "u59D4", "u5C48", "u4E00", "u4E0B">>,
         <<"u4E0D", "u8981", "u51F6", "u6211", "u561B">>,
         <<"u6211", "u5148", "u62BF", "u5634">>,
         <<"u6211", "u771F", "u7684", "u6CA1", "u6709">>,
         <<"u5C31", "u4E00", "u70B9", "u70B9", "u96BE", "u8FC7">>,
         <<"u6211", "u5148", "u8EB2", "u4E00", "u4F1A", "u513F">>,
         <<"u6211", "u9700", "u8981", "u5B89", "u6170">>,
         <<"u6211", "u4E0D", "u670D", "uFF0C", "u4F46", "u6211", "u5FCD">>,
         <<"u6211", "u597D", "u59D4", "u5C48">>,
         <<"u773C", "u6CEA", "u5728", "u773C", "u7736", "u6253", "u8F6C">>,
         <<"u4F60", "u8BF4", "u5462", "uFF1F">>
       >>
    @@ "angry" :> <<
         <<"u6211", "u751F", "u6C14", "u4E86", "uFF01">>,
         <<"u54FC", "uFF01">>,
         <<"u522B", "u60F9", "u6211">>,
         <<"u6211", "u73B0", "u5728", "u5F88", "u4E25", "u8083">>,
         <<"u4E0D", "u8BB8", "u8FD9", "u6837">>,
         <<"u6C14", "u9F13", "u9F13">>,
         <<"u6211", "u4E0D", "u7406", "u4F60", "u4E86">>,
         <<"u8FD9", "u4E8B", "u513F", "u6211", "u8BB0", "u4E0B", "u4E86">>,
         <<"u6211", "u62D2", "u7EDD">>,
         <<"u4F60", "u7ED9", "u6211", "u89E3", "u91CA", "u6E05", "u695A">>,
         <<"u6211", "u5728", "u53D1", "u706B", "u8FB9", "u7F18">>,
         <<"u54FC", "u5527", "u2026", "u2026">>
       >>
    @@ "shocked" :> <<
         <<"u554A", "uFF1F", "u8FD8", "u6709", "u8FD9", "u4E8B", "uFF1F">>,
         <<"u6211", "u542C", "u5230", "u4E86", "u4EC0", "u4E48">>,
         <<"u7B49", "u7B49", "uFF0C", "u6211", "u6CA1", "u542C", "u9519", "u5427">>,
         <<"u8FD9", "u5408", "u7406", "u5417", "uFF1F">>,
         <<"u9707", "u60CA", "u5230", "u5931", "u8BED">>,
         <<"u6211", "u8111", "u5B50", "u55E1", "u7684", "u4E00", "u4E0B">>,
         <<"u6211", "u4EBA", "u90FD", "u50BB", "u4E86">>,
         <<"u8BA9", "u6211", "u7F13", "u4E00", "u7F13">>,
         <<"u4F60", "u518D", "u8BF4", "u4E00", "u904D", "uFF1F">>,
         <<"u8FD9", "u4E2A", "u6211", "u771F", "u6CA1", "u60F3", "u5230">>,
         <<"u773C", "u775B", "u90FD", "u77AA", "u5706", "u4E86">>,
         <<"u79BB", "u8C31", "uFF01">>
       >>
    @@ "sleepy" :> <<
         <<"u6211", "u56F0", "u4E86">>,
         <<"u6211", "u5148", "u772F", "u4E00", "u4F1A", "u513F">>,
         <<"u7535", "u91CF", "u4E0D", "u8DB3">>,
         <<"u6211", "u9700", "u8981", "u7761", "u89C9", "u89C9">>,
         <<"u6211", "u5DF2", "u7ECF", "u5F00", "u59CB", "u6253", "u54C8", "u6B20">>,
         <<"u773C", "u76AE", "u6253", "u67B6", "u4E2D">>,
         <<"u80FD", "u4E0D", "u80FD", "u5148", "u8BA9", "u6211", "u7761", "u4F1A">>,
         <<"u6211", "u771F", "u7684", "u8981", "u7761", "u4E86">>,
         <<"u56F0", "u5230", "u7075", "u9B42", "u51FA", "u8D70">>,
         <<"u4ECA", "u5929", "u7684", "u6211", "uFF1A", "u60F3", "u7761">>,
         <<"u665A", "u5B89", "u6A21", "u5F0F", "u5F00", "u542F">>,
         <<"u8BA9", "u6211", "u5B89", "u9759", "u4E00", "u4E0B">>
       >>
    @@ "uncertain" :> <<
         <<"u6536", "u5230">>,
         <<"u55EF", "u55EF">>,
         <<"u597D", "u5427">>,
         <<"u884C">>,
         <<"u6211", "u5148", "u8FD9", "u6837">>,
         <<"u6211", "u770B", "u770B">>,
         <<"u7B49", "u7B49", "u6211">>,
         <<"u8BA9", "u6211", "u60F3", "u60F3">>,
         <<"u6211", "u4E0D", "u8BF4", "u8BDD">>,
         <<"u6211", "u5148", "u6C89", "u9ED8">>,
         <<"u5148", "u8FD9", "u6837", "u5427">>,
         <<"u6211", "u5728", "u5462">>
       >>

MOUTH_CLOSEUP_CAPTIONS ==
    <<
      <<"u53E3", "u6C34", "u4E0A", "u7EBF">>,
      <<"u6211", "u5148", "u5C1D", "u4E00", "u53E3">>,
      <<"u998B", "u5230", "u4E0D", "u884C">>,
      <<"u55EF", "u2026", "u597D", "u9999">>,
      <<"u522B", "u62CD", "u4E86", "u522B", "u62CD", "u4E86">>,
      <<"u6211", "u5728", "u8BA4", "u771F", "u54C1">>,
      <<"u7B49", "u6211", "u4E00", "u53E3">>,
      <<"u8FD9", "u4E00", "u53E3", "u5F88", "u5173", "u952E">>,
      <<"u5148", "u522B", "u50AC", "u6211">>,
      <<"u6211", "u5148", "u542B", "u4F1A", "u513F">>,
      <<"u7ED9", "u6211", "u7559", "u70B9", "u9762", "u5B50">>,
      <<"u6211", "u5C31", "u770B", "u770B", "u4E0D", "u8BF4", "u8BDD">>
    >>

BANNED_PATTERNS ==
    {
      <<"u8001", "u5A46">>,
      <<"u8001", "u516C">>,
      <<"u5BF9", "u8C61">>,
      <<"u8C08", "u604B", "u7231">>,
      <<"u604B", "u7231">>,
      <<"u5FC3", "u52A8">>,
      <<"u64A9">>,
      <<"u64A9", "u4EBA">>,
      <<"u5728", "u4E00", "u8D77">>,
      <<"u4EB2", "u4EB2">>,
      <<"u4EB2", "u4E00", "u53E3">>,
      <<"u4EB2", "u4E00", "u4E0B">>,
      <<"u4EB2", "u4E2A">>,
      <<"u4E48", "u4E48">>,
      <<"u63A5", "u543B">>,
      <<"u820C">>,
      <<"u6E7F", "u8EAB">>,
      <<"u6027", "u611F">>,
      <<"u5185", "u8863">>,
      <<"u79C1", "u5BC6">>,
      <<"u80F8">>,
      <<"u8131">>,
      <<"u50BB">>,
      <<"u8822">>,
      <<"u5E9F", "u7269">>,
      <<"u6EDA">>,
      <<"u6076", "u5FC3">>,
      <<"u4E11">>,
      <<"u6B7B">>,
      <<"u8BA8", "u538C", "u4F60">>,
      <<"u5730", "u5740">>,
      <<"u5C0F", "u533A">>,
      <<"u95E8", "u724C">>,
      <<"u5B66", "u6821">>,
      <<"u73ED", "u7EA7">>,
      <<"u533B", "u9662">>,
      <<"u4E0A", "u706B">>,
      <<"u75C5">>,
      <<"u751F", "u75C5">>,
      <<"u53D1", "u70E7">>,
      <<"u8FC7", "u654F">>,
      <<"u7528", "u836F">>,
      <<"u6253", "u9488">>
    }

\* The pool read one entry too far.
get_fallback_captions_shifted(label, n) ==
    LET pool == IF label \in DOMAIN CAPTIONS_FALLBACK
                THEN CAPTIONS_FALLBACK[label]
                ELSE CAPTIONS_FALLBACK["uncertain"]
    IN  IF n <= 0 THEN <<>>
        ELSE [i \in 1..n |-> pool[(i % Len(pool)) + 1]]

get_fallback_captions(label, n) ==
    LET pool == IF label \in DOMAIN CAPTIONS_FALLBACK
                THEN CAPTIONS_FALLBACK[label]
                ELSE CAPTIONS_FALLBACK["uncertain"]
    IN  IF n <= 0 THEN <<>>
        ELSE [i \in 1..n |-> pool[((i - 1) % Len(pool)) + 1]]

get_mouth_closeup_captions(n) ==
    IF n <= 0 THEN <<>>
    ELSE [i \in 1..n |-> MOUTH_CLOSEUP_CAPTIONS[((i - 1) % Len(MOUTH_CLOSEUP_CAPTIONS)) + 1]]

\* ------------------------------------------------------------------------
\* safety.py
\* ------------------------------------------------------------------------

MaxCaptionLen == 60

\* The characters str.strip() removes among those the model uses.
Whitespace == {" ", "\n"}

\* The argument of s.strip(...) in sanitize_caption, nine punctuation marks.
StripPunctuation == {"uFF0C", ",", "u3002", ".", "!", "uFF01", "?", "uFF1F", "u2026"}

DefaultCaption == <<"u6536", "u5230">>

RECURSIVE LStrip(_, _)
LStrip(s, chars) ==
    IF s = <<>> \/ s[1] \notin chars THEN s ELSE LStrip(Tail(s), chars)

RECURSIVE RStrip(_, _)
RStrip(s, chars) ==
    IF s = <<>> \/ s[Len(s)] \notin chars THEN s
    ELSE RStrip(SubSeq(s, 1, Len(s) - 1), chars)

Strip(s, chars) == RStrip(LStrip(s, chars), chars)

Contains(s, pat) ==
    \E i \in 1..(Len(s) - Len(pat) + 1) : SubSeq(s, i, i + Len(pat) - 1) = pat

\* re.sub(r"\\s+", " ", text): the pattern is a backslash followed by one or
\* more letters s; each such run becomes one space.
RECURSIVE SubBackslashS(_)
SubBackslashS(s) ==
    IF s = <<>> THEN <<>>
    ELSE IF s[1] = "\\" /\ Len(s) >= 2 /\ s[2] = "s"
         THEN <<" ">> \o SubBackslashS(LStrip(Tail(s), {"s"}))
         ELSE <<s[1]>> \o SubBackslashS(Tail(s))

is_caption_safe(text) ==
    LET s == Strip(text, Whitespace)
    IN  /\ s # <<>>
        /\ Len(s) <= MaxCaptionLen
        /\ \A pat \in BANNED_PATTERNS : ~Contains(s, pat)

sanitize_caption(text) ==
    LET s1 == Strip(SubBackslashS(text), Whitespace)
        s2 == SelectSeq(s1, LAMBDA ch : ch # "u200B")
        s3 == Strip(s2, StripPunctuation)
    IN  IF s3 = <<>> THEN DefaultCaption ELSE s3

pick_expression_label(model_label) ==
    IF model_label \in {"happy", "wronged", "angry", "shocked", "sleepy"}
    THEN model_label
    ELSE "uncertain"

\* The loop keeping the candidate as it was given instead of its sanitized form.
RECURSIVE CollectSafe_raw(_, _)
CollectSafe_raw(candidates, safe) ==
    IF candidates = <<>> \/ Len(safe) >= 5 THEN safe
    ELSE LET s == sanitize_caption(Head(candidates))
         IN  CollectSafe_raw(Tail(candidates),
                             IF is_caption_safe(s) THEN Append(safe, Head(candidates)) ELSE safe)

\* The loop of ensure_5_safe_captions: keeps the sanitized candidates that pass
\* is_caption_safe and stops as soon as five are kept.
RECURSIVE CollectSafe(_, _)
CollectSafe(candidates, safe) ==
    IF candidates = <<>> \/ Len(safe) >= 5 THEN safe
    ELSE LET s == sanitize_caption(Head(candidates))
         IN  CollectSafe(Tail(candidates),
                         IF is_caption_safe(s) THEN Append(safe, s) ELSE safe)

ensure_5_safe_captions(candidates, fallback_label) ==
    LET safe == CollectSafe(candidates, <<>>)
        fallback == get_fallback_captions(fallback_label, 5)
    IN  IF Len(safe) >= 5
        THEN [captions |-> SubSeq(safe, 1, 5), fallback |-> FALSE]
        ELSE [captions |-> [i \in 1..5 |-> IF i <= Len(safe) THEN safe[i] ELSE fallback[i]],
              fallback |-> TRUE]

\* ------------------------------------------------------------------------
\* schemas.py
\* ------------------------------------------------------------------------

Risks == {"low", "medium", "high"}

\* Caption: text has min_length=1 and max_length=60.
CaptionValid(text) == Len(text) >= 1 /\ Len(text) <= MaxCaptionLen

\* AIResult.model_validate on the fields the pipeline reads.
AIResultValid(d) ==
    /\ d.primary_label \in ExpressionLabels
    /\ d.risk \in Risks
    /\ \A i \in 1..Len(d.captions) : CaptionValid(d.captions[i])

\* CaptionsResult.model_validate: as above, and exactly five captions.
CaptionsResultValid(d) ==
    /\ d.risk \in Risks
    /\ \A i \in 1..Len(d.captions) : CaptionValid(d.captions[i])
    /\ Len(d.captions) = 5

\* ------------------------------------------------------------------------
\* The external service: what one HTTP exchange can produce
\* ------------------------------------------------------------------------

Rep(ch, n) == [i \in 1..n |-> ch]

\* Caption texts the service may return: c1..c6 are harmless and distinct
\* from every static caption, Banned matches a banned pattern, TooLong has
\* 61 characters.
AICap(tag, i) == <<tag, ToString(i)>>
Banned == <<"a", "u50BB">>
TooLong == Rep("a", MaxCaptionLen + 1)

CaptionLists(tag) ==
    { [i \in 1..5 |-> AICap(tag, i)],
      [i \in 1..4 |-> AICap(tag, i)],
      [i \in 1..5 |-> IF i = 2 THEN Banned ELSE AICap(tag, i)],
      [i \in 1..6 |-> IF i = 1 THEN Banned ELSE AICap(tag, i - 1)],
      <<TooLong>>,
      <<>> }

\* Crop boxes are identified by a positive number; NoBox stands for None.
NoBox == 0
MaxBoxes == 6
BoxLists == { <<>>, <<1>>, [i \in 1..MaxBoxes |-> i] }

\* The safety and fallback fields of a parsed object: accepted by the
\* business rules, rejected by each rule in turn, and schema-invalid.
PolicyFields ==
    { [allowed |-> TRUE,  risk |-> "low",   use_fallback |-> FALSE],
      [allowed |-> FALSE, risk |-> "low",   use_fallback |-> FALSE],
      [allowed |-> TRUE,  risk |-> "high",  use_fallback |-> FALSE],
      [allowed |-> TRUE,  risk |-> "low",   use_fallback |-> TRUE],
      [allowed |-> TRUE,  risk |-> "bogus", use_fallback |-> FALSE] }

\* Parsed analysis objects, schema-valid or not.
AIDicts ==
    { [primary_label |-> l, allowed |-> p.allowed, risk |-> p.risk,
       use_fallback |-> p.use_fallback, captions |-> c, boxes |-> b] :
         l \in {"happy", "uncertain", "bogus"}, p \in PolicyFields,
         c \in CaptionLists("c"), b \in BoxLists }

\* Parsed montage-captions objects, schema-valid or not.
CapDicts ==
    { [allowed |-> p.allowed, risk |-> p.risk, use_fallback |-> p.use_fallback,
       captions |-> c] :
         p \in PolicyFields, c \in CaptionLists("m") }

\* The content_text of a 200 response: text extract_json_object rejects, or
\* text it turns into the object obj.
Malformed == [kind |-> "malformed"]
AnalysisContents == {Malformed} \cup {[kind |-> "object", obj |-> d] : d \in AIDicts}
MontageContents == {Malformed} \cup {[kind |-> "object", obj |-> d] : d \in CapDicts}

\* Outcome of one session.post: a status code, or "timeout" for a timeout or
\* any other exception raised while sending or decoding.
Statuses == {"200", "400", "422", "500"}
HttpOutcomes == Statuses \cup {"timeout"}

\* ------------------------------------------------------------------------
\* State
\* ------------------------------------------------------------------------

VARIABLES
    image_len,        \* len(image_bytes) of the upload
    img_ok,           \* safe_open_image returned an image (img is not None)
    api_key,          \* settings.openrouter_api_key is set
    crop_preference,  \* detect_crop_preference(user_prompt): "" or "mouth_closeup"
    pc,               \* position of the handler
    u,                \* the local variables of upload()
    strict_retry,     \* strict_retry of the service call in flight
    posts,            \* the session.post requests of the client call in progress
    reply,            \* content_text of the last 200 response received
    calls,            \* every analyze_image / captions_for_montage call, with its outcome
    response,         \* the HTTP response of /upload
    fn_in,            \* argument of a function applied on its own
    fn_out,           \* its result
    running,          \* the upload() coroutine that holds the event loop's thread, or 0
    rpc,              \* position of each upload() coroutine of the server process
    nposts            \* session.post requests each coroutine has sent

inputs == <<image_len, img_ok, api_key, crop_preference>>
fnvars == <<fn_in, fn_out>>
srvvars == <<running, rpc, nposts>>
vars == <<image_len, img_ok, api_key, crop_preference, pc, u, strict_retry,
          posts, reply, calls, response, fn_in, fn_out, running, rpc, nposts>>

\* settings.max_upload_bytes, default 10 * 1024 * 1024
max_upload_bytes == 10485760

\* main.py lines 109-134
InitLocals ==
    [ used_ai |-> FALSE,
      ai_attempted |-> FALSE,
      ai_error_stage |-> "",
      ai_error |-> "",
      ai_calls |-> 0,
      fallback_used |-> FALSE,
      fallback_reason |-> "",
      expression_label |-> "uncertain",
      crop_boxes |-> <<>>,
      captions |-> <<>>,
      captions_ai_used |-> FALSE,
      captions_ai_error |-> "",
      captions_source |-> "fallback",
      model_captions |-> <<>>,
      cap_obj_validated |-> FALSE,
      crops_512 |-> <<>> ]

NoResponse == [status_code |-> 0, results |-> <<>>]

\* ------------------------------------------------------------------------
\* openrouter_client.py: what a call does with the outcome of a post
\* ------------------------------------------------------------------------

\* A client that treats a timeout of the first post like a rejected format.
analyze_image_step_timeout_repost(first_post, outcome) ==
    IF outcome = "200" THEN "return"
    ELSE IF first_post /\ outcome \in {"400", "422", "timeout"} THEN "repost"
    ELSE "raise"

\* analyze_image, lines 121-139. first_post: the post carried response_format.
analyze_image_step(first_post, outcome) ==
    IF outcome = "timeout" THEN "raise"
    ELSE IF outcome = "200" THEN "return"
    ELSE IF first_post /\ outcome \in {"400", "422"} THEN "repost"
    ELSE "raise"

\* captions_for_montage, lines 221-229.
captions_for_montage_step(first_post, outcome) ==
    IF outcome = "timeout" THEN "raise"
    ELSE IF outcome = "200" THEN "return"
    ELSE IF first_post THEN "repost"
    ELSE "raise"

NewPost(call, strict, with_format) ==
    [call |-> call, strict_retry |-> strict, response_format |-> with_format,
     status |-> "pending"]

\* hint is the error_hint argument: "" on a first call, str(e) on a strict retry.
NewCall(call, strict, hint) ==
    [call |-> call, strict_retry |-> strict, error_hint |-> hint, outcome |-> "pending"]

SetLast(log, field, value) ==
    [log EXCEPT ![Len(log)] = [@ EXCEPT ![field] = value]]

\* ------------------------------------------------------------------------
\* main.py: pure parts of upload()
\* ------------------------------------------------------------------------

\* extract_json_object on a service content: it returns a dict or raises.
extract_json_object_ok(content) == content.kind = "object"

\* The exception, if any, of extract_json_object followed by
\* AIResult.model_validate (lines 165, 170-171, 177, 185-186).
ai_response_error(content) ==
    IF ~extract_json_object_ok(content) THEN "parse_error"
    ELSE IF ~AIResultValid(content.obj) THEN "validation_error"
    ELSE ""

\* The same for CaptionsResult.model_validate (lines 297-298, 302-303).
captions_response_error(content) ==
    IF ~extract_json_object_ok(content) THEN "parse_error"
    ELSE IF ~CaptionsResultValid(content.obj) THEN "validation_error"
    ELSE ""

\* A labelling that does not tell the failures of the first response apart.
error_stage_of_http(e) == "http"

\* ai_error_stage of lines 167 and 182: extract_json_object raised, or
\* AIResult.model_validate did.
error_stage_of(e) == IF e = "parse_error" THEN "parse" ELSE "validate"

\* A retry that is not limited to the first attempt.
try_ai_step_loop(strict, content) ==
    IF ai_response_error(content) = "" THEN "accept" ELSE "retry"

\* _try_ai, lines 161-189, after a call returned content.
try_ai_step(strict, content) ==
    IF ai_response_error(content) = "" THEN "accept"
    ELSE IF ~strict THEN "retry"
    ELSE "raise"

\* The business rule evaluated inside the retried block.
try_captions_step_policy(strict, content) ==
    IF captions_response_error(content) = "" /\ ~((~content.obj.allowed) \/ content.obj.risk = "high" \/ content.obj.use_fallback)
    THEN "accept"
    ELSE IF ~strict THEN "retry"
    ELSE "raise"

\* lines 296-303 of the montage stage, after a call returned content.
try_captions_step(strict, content) ==
    IF captions_response_error(content) = "" THEN "accept"
    ELSE IF ~strict THEN "retry"
    ELSE "raise"

\* _normalize_boxes
normalize_boxes(boxes) ==
    IF boxes = <<>> THEN <<>>
    ELSE IF Len(boxes) >= 5 THEN SubSeq(boxes, 1, 5)
    ELSE [i \in 1..5 |-> IF i <= Len(boxes) THEN boxes[i] ELSE boxes[Len(boxes)]]

\* The business rule of lines 233 and 304.
PolicyFallback(obj) == (~obj.allowed) \/ obj.risk = "high" \/ obj.use_fallback

\* a or b of two strings.
OrElse(a, b) == IF a # "" THEN a ELSE b

\* The fallback branch without the fallback flag.
analysis_failed_noflag(loc, ai_error_msg) ==
    [loc EXCEPT
        !.fallback_reason = ai_error_msg,
        !.expression_label = "uncertain",
        !.captions = ensure_5_safe_captions(<<>>, "uncertain").captions,
        !.crop_boxes = <<>>]

\* lines 218-228: ai_obj is None.
analysis_failed(loc, ai_error_msg) ==
    LET http == loc.ai_attempted /\ loc.ai_error_stage = ""
    IN  [loc EXCEPT
            !.fallback_used = TRUE,
            !.ai_error_stage = IF http THEN "http" ELSE @,
            !.ai_error = IF http THEN OrElse(ai_error_msg, OrElse(@, "ai_request_failed")) ELSE @,
            !.fallback_reason = OrElse(ai_error_msg, OrElse(loc.ai_error, "ai_parse_failed")),
            !.expression_label = "uncertain",
            !.captions = ensure_5_safe_captions(<<>>, "uncertain").captions,
            !.crop_boxes = <<>>]

\* Crop boxes taken over from the result whatever the fallback decision.
accepted_crop_boxes_always(fallback_used, boxes) == normalize_boxes(boxes)

\* lines 254-259: the boxes of the plan are used only without a fallback
\* (_apply_mouth_closeup, lines 51-54, returns its argument).
accepted_crop_boxes(fallback_used, boxes) ==
    IF ~fallback_used THEN normalize_boxes(boxes) ELSE <<>>

\* The accepted branch that filters an empty list instead of the model's captions.
analysis_accepted_static(loc, ai_obj) ==
    LET label == pick_expression_label(ai_obj.primary_label)
        ens == ensure_5_safe_captions(<<>>, label)
    IN  [loc EXCEPT
            !.used_ai = TRUE,
            !.ai_error_stage = "",
            !.ai_error = "",
            !.expression_label = label,
            !.model_captions = ai_obj.captions,
            !.captions = ens.captions,
            !.fallback_used = TRUE,
            !.fallback_reason = "captions_filtered",
            !.crop_boxes = <<>>]

\* lines 206 and 230-259: _try_ai returned ai_obj.
analysis_accepted(loc, ai_obj) ==
    LET label == pick_expression_label(ai_obj.primary_label)
        policy == PolicyFallback(ai_obj)
        ens == ensure_5_safe_captions(ai_obj.captions, label)
        fb == policy \/ ens.fallback
    IN  [loc EXCEPT
            !.used_ai = TRUE,
            !.ai_error_stage = "",
            !.ai_error = "",
            !.expression_label = label,
            !.model_captions = ai_obj.captions,
            !.captions = ens.captions,
            !.captions_source = IF ens.fallback THEN @ ELSE "ai_original",
            !.fallback_used = fb,
            !.fallback_reason = IF policy THEN "policy"
                                ELSE IF ens.fallback THEN "captions_filtered"
                                ELSE @,
            !.crop_boxes = accepted_crop_boxes(fb, ai_obj.boxes)]

\* make_512_crops: which crop function each of the five slots uses.
make_512_crops(crop_boxes, preference) ==
    [i \in 1..5 |->
        LET box == IF crop_boxes # <<>>
                   THEN (IF i <= Len(crop_boxes) THEN crop_boxes[i] ELSE crop_boxes[1])
                   ELSE NoBox
        IN  [ crop |-> IF preference = "mouth_closeup"
                       THEN (IF box # NoBox THEN "mouth_closeup_square_crop"
                             ELSE "mouth_closeup_square_crop_global")
                       ELSE IF box # NoBox THEN "square_from_box"
                       ELSE "auto_focus_square_crop",
              box |-> box,
              variant |-> i - 1 ]]

\* lines 277-281: the mouth-themed baseline and the five crops.
make_crops(loc) ==
    LET mouth == crop_preference = "mouth_closeup"
    IN  [loc EXCEPT
            !.captions = IF mouth
                         THEN ensure_5_safe_captions(get_mouth_closeup_captions(5), "uncertain").captions
                         ELSE @,
            !.captions_source = IF mouth THEN "mouth_fallback" ELSE @,
            !.crops_512 = make_512_crops(loc.crop_boxes, crop_preference)]

\* A second pass whose success withdraws the fallback flag.
captions_accepted_clearflag(loc, cap_obj) ==
    LET loc1 == [loc EXCEPT !.cap_obj_validated = TRUE]
        ens == ensure_5_safe_captions(cap_obj.captions, loc.expression_label)
    IN  IF PolicyFallback(cap_obj)
        THEN [loc1 EXCEPT !.captions_ai_error = "captions_safety_fallback"]
        ELSE IF ens.fallback
        THEN [loc1 EXCEPT !.captions_ai_error = "captions_filtered"]
        ELSE [loc1 EXCEPT !.captions = ens.captions,
                          !.captions_ai_used = TRUE,
                          !.captions_source = "ai_crops",
                          !.fallback_used = FALSE]

\* lines 304-313: cap_obj validated; the result is the locals after the stage.
captions_accepted(loc, cap_obj) ==
    LET loc1 == [loc EXCEPT !.cap_obj_validated = TRUE]
        ens == ensure_5_safe_captions(cap_obj.captions, loc.expression_label)
    IN  IF PolicyFallback(cap_obj)
        THEN [loc1 EXCEPT !.captions_ai_error = "captions_safety_fallback"]
        ELSE IF ens.fallback
        THEN [loc1 EXCEPT !.captions_ai_error = "captions_filtered"]
        ELSE [loc1 EXCEPT !.captions = ens.captions,
                          !.captions_ai_used = TRUE,
                          !.captions_source = "ai_crops"]

\* A failure of the stage that also drops the captions made before it.
captions_failed_clear(loc, msg) == [loc EXCEPT !.captions_ai_error = msg, !.captions = <<>>]

\* lines 314-315: an exception inside the stage.
captions_failed(loc, msg) == [loc EXCEPT !.captions_ai_error = msg]

\* save_memes_from_crops / generate_memes: the caption of each of the five
\* results; failed is the set of slots whose rendering raised.
render_results(captions, failed) ==
    [i \in 1..5 |->
        [caption |-> IF i \in failed THEN DefaultCaption
                     ELSE IF i <= Len(captions) THEN captions[i]
                     ELSE DefaultCaption]]

\* ------------------------------------------------------------------------
\* The /upload handler
\* ------------------------------------------------------------------------

ImageLens == {0, max_upload_bytes, max_upload_bytes + 1}

\* Number of result slots whose rendering may raise in one request.
MaxRenderFailures == 1

Init ==
    /\ image_len \in ImageLens
    /\ img_ok \in BOOLEAN
    /\ api_key \in BOOLEAN
    /\ crop_preference \in {"", "mouth_closeup"}
    /\ pc = "start"
    /\ u = InitLocals
    /\ strict_retry = FALSE
    /\ posts = <<>>
    /\ reply = Malformed
    /\ calls = <<>>
    /\ response = NoResponse
    /\ fn_in = <<>>
    /\ fn_out = <<>>
    /\ running = 0
    /\ rpc = <<>>
    /\ nposts = <<>>

\* A client call starts: its first post carries response_format.
StartCall(loc, call, strict, wait) ==
    /\ u' = loc
    /\ calls' = Append(calls, NewCall(call, strict, ""))
    /\ posts' = <<NewPost(call, strict, TRUE)>>
    /\ strict_retry' = strict
    /\ pc' = wait

\* The second-pass stage entered without looking at the credentials.
AfterAnalysis_nokey(loc, calls1) ==
    /\ u' = loc
    /\ calls' = Append(calls1, NewCall("montage", FALSE, ""))
    /\ posts' = <<NewPost("montage", FALSE, TRUE)>>
    /\ strict_retry' = FALSE
    /\ pc' = "montage_wait"

\* The second-pass stage is entered only with credentials (line 284).
AfterAnalysis(loc, calls1) ==
    IF api_key
    THEN /\ u' = loc
         /\ calls' = Append(calls1, NewCall("montage", FALSE, ""))
         /\ posts' = <<NewPost("montage", FALSE, TRUE)>>
         /\ strict_retry' = FALSE
         /\ pc' = "montage_wait"
    ELSE /\ u' = loc
         /\ calls' = calls1
         /\ posts' = <<>>
         /\ strict_retry' = FALSE
         /\ pc' = "render"

\* upload(), lines 88-140 and, without credentials, 215-281.
Receive ==
    /\ pc = "start"
    /\ IF image_len = 0
       THEN /\ response' = [status_code |-> 400, results |-> <<>>]
            /\ pc' = "done"
            /\ UNCHANGED <<u, strict_retry, posts, calls>>
       ELSE IF image_len > max_upload_bytes
       THEN /\ response' = [status_code |-> 413, results |-> <<>>]
            /\ pc' = "done"
            /\ UNCHANGED <<u, strict_retry, posts, calls>>
       ELSE IF ~img_ok
       THEN /\ u' = [u EXCEPT !.fallback_used = TRUE,
                              !.fallback_reason = "image_read_failed",
                              !.captions = ensure_5_safe_captions(<<>>, "uncertain").captions]
            /\ pc' = "render"
            /\ UNCHANGED <<strict_retry, posts, calls, response>>
       ELSE IF api_key
       THEN /\ StartCall([u EXCEPT !.ai_attempted = TRUE, !.ai_calls = @ + 1],
                         "analyze", FALSE, "analyze_wait")
            /\ UNCHANGED response
       ELSE /\ AfterAnalysis(make_crops(analysis_failed(u, "no_api_key")), calls)
            /\ UNCHANGED response
    /\ UNCHANGED <<inputs, reply, fnvars, srvvars>>

\* The service answers the pending post of an analyze_image call.
AnalysisReply(outcome, content) ==
    /\ pc = "analyze_wait"
    /\ posts' = SetLast(posts, "status", outcome)
    /\ reply' = IF outcome = "200" THEN content ELSE Malformed
    /\ pc' = "analyze_got"
    /\ UNCHANGED <<inputs, u, strict_retry, calls, response, fnvars, srvvars>>

\* The service answers the pending post of a captions_for_montage call.
MontageReply(outcome, content) ==
    /\ pc = "montage_wait"
    /\ posts' = SetLast(posts, "status", outcome)
    /\ reply' = IF outcome = "200" THEN content ELSE Malformed
    /\ pc' = "montage_got"
    /\ UNCHANGED <<inputs, u, strict_retry, calls, response, fnvars, srvvars>>

LastPost == posts[Len(posts)]

ErrorMessage(outcome) == IF outcome = "timeout" THEN "timeout" ELSE "http_error"

\* An exception of a handler that does not catch it: the framework answers 500.
AnalysisRaised_uncaught(ai_error_msg, calls1) ==
    /\ response' = [status_code |-> 500, results |-> <<>>]
    /\ pc' = "done"
    /\ calls' = calls1
    /\ posts' = <<>>
    /\ UNCHANGED <<u, strict_retry>>

\* lines 207-228: _try_ai raised; the exception is caught and the pipeline
\* goes on with the local fallback.
AnalysisRaised(ai_error_msg, calls1) ==
    /\ AfterAnalysis(make_crops(analysis_failed(u, ai_error_msg)), calls1)
    /\ UNCHANGED response

\* analyze_image from line 122 on, then _try_ai and upload() up to the next
\* post or to line 283.
AnalyzeContinue ==
    /\ pc = "analyze_got"
    /\ LET step == analyze_image_step(LastPost.response_format, LastPost.status)
           t == try_ai_step(strict_retry, reply)
           e == ai_response_error(reply)
       IN  IF step = "repost"
           THEN /\ posts' = Append(posts, NewPost("analyze", strict_retry, FALSE))
                /\ pc' = "analyze_wait"
                /\ UNCHANGED <<u, strict_retry, calls, response>>
           ELSE IF step = "raise"
           THEN AnalysisRaised(ErrorMessage(LastPost.status), SetLast(calls, "outcome", "raised"))
           ELSE IF t = "accept"
           THEN /\ AfterAnalysis(make_crops(analysis_accepted(u, reply.obj)),
                                 SetLast(calls, "outcome", "returned"))
                /\ UNCHANGED response
           ELSE IF t = "raise"
           THEN AnalysisRaised(e, SetLast(calls, "outcome", "returned"))
           ELSE /\ u' = [u EXCEPT !.ai_error_stage = error_stage_of(e),
                                  !.ai_error = e,
                                  !.ai_calls = @ + 1]
                /\ calls' = Append(SetLast(calls, "outcome", "returned"), NewCall("analyze", TRUE, e))
                /\ posts' = <<NewPost("analyze", TRUE, TRUE)>>
                /\ strict_retry' = TRUE
                /\ pc' = "analyze_wait"
                /\ UNCHANGED response
    /\ reply' = Malformed
    /\ UNCHANGED <<inputs, fnvars, srvvars>>

\* captions_for_montage from line 222 on, then upload() lines 295-321.
MontageContinue ==
    /\ pc = "montage_got"
    /\ LET step == captions_for_montage_step(LastPost.response_format, LastPost.status)
           t == try_captions_step(strict_retry, reply)
           e == captions_response_error(reply)
       IN  IF step = "repost"
           THEN /\ posts' = Append(posts, NewPost("montage", strict_retry, FALSE))
                /\ pc' = "montage_wait"
                /\ UNCHANGED <<u, strict_retry, calls>>
           ELSE IF step = "raise"
           THEN /\ u' = captions_failed(u, ErrorMessage(LastPost.status))
                /\ calls' = SetLast(calls, "outcome", "raised")
                /\ posts' = <<>>
                /\ pc' = "render"
                /\ UNCHANGED strict_retry
           ELSE IF t = "accept"
           THEN /\ u' = captions_accepted(u, reply.obj)
                /\ calls' = SetLast(calls, "outcome", "returned")
                /\ posts' = <<>>
                /\ pc' = "render"
                /\ UNCHANGED strict_retry
           ELSE IF t = "raise"
           THEN /\ u' = captions_failed(u, e)
                /\ calls' = SetLast(calls, "outcome", "returned")
                /\ posts' = <<>>
                /\ pc' = "render"
                /\ UNCHANGED strict_retry
           ELSE /\ calls' = Append(SetLast(calls, "outcome", "returned"), NewCall("montage", TRUE, e))
                /\ posts' = <<NewPost("montage", TRUE, TRUE)>>
                /\ strict_retry' = TRUE
                /\ pc' = "montage_wait"
                /\ UNCHANGED u
    /\ reply' = Malformed
    /\ UNCHANGED <<inputs, response, fnvars, srvvars>>

\* generate_memes (unreadable image) or save_memes_from_crops, and the
\* response of lines 331-355.
Render(failed) ==
    /\ pc = "render"
    /\ response' = [status_code |-> 200, results |-> render_results(u.captions, failed)]
    /\ pc' = "done"
    /\ UNCHANGED <<inputs, u, strict_retry, posts, reply, calls, fnvars, srvvars>>

RenderFailures == {f \in SUBSET (1..5) : Cardinality(f) <= MaxRenderFailures}

Next ==
    \/ Receive
    \/ \E outcome \in HttpOutcomes, content \in AnalysisContents : AnalysisReply(outcome, content)
    \/ AnalyzeContinue
    \/ \E outcome \in HttpOutcomes, content \in MontageContents : MontageReply(outcome, content)
    \/ MontageContinue
    \/ \E failed \in RenderFailures : Render(failed)

Spec == Init /\ [][Next]_vars

TypeOK ==
    /\ pc \in {"start", "analyze_wait", "analyze_got", "montage_wait", "montage_got",
               "render", "done"}
    /\ u.ai_calls \in 0..2
    /\ Len(posts) <= 2
    /\ Len(calls) <= 4

\* ------------------------------------------------------------------------
\* ensure_5_safe_captions applied on its own
\* ------------------------------------------------------------------------

\* Longest list of arbitrary texts that follows the harmless captions.
MaxTail == 2

SeqsUpTo(S, n) == UNION {[1..m -> S] : m \in 0..n}

\* Candidate texts: harmless, empty, blank, at and over the length limit,
\* 60 characters followed by a space and a full stop, zero-width spaces
\* around a space, a banned word, a backslash-s run, punctuation before a
\* space.
SampleTexts ==
    { <<"a">>,
      <<>>,
      <<" ">>,
      Rep("a", MaxCaptionLen),
      TooLong,
      Rep("a", MaxCaptionLen) \o <<" ", ".">>,
      <<"u200B", " ", "u200B">>,
      Banned,
      <<"\\", "s", "s", "a">>,
      <<".", " ", "a">> }

CandidateLists ==
    { [i \in 1..k |-> AICap("c", i)] \o tail :
        k \in 0..5, tail \in SeqsUpTo(SampleTexts, MaxTail) }

LabelInputs == {"happy", "shocked", "uncertain", "bogus"}

InitCaptions ==
    /\ image_len = 0
    /\ img_ok = FALSE
    /\ api_key = FALSE
    /\ crop_preference = ""
    /\ pc = "fn_ready"
    /\ u = InitLocals
    /\ strict_retry = FALSE
    /\ posts = <<>>
    /\ reply = Malformed
    /\ calls = <<>>
    /\ response = NoResponse
    /\ fn_in \in [candidates : CandidateLists, fallback_label : LabelInputs]
    /\ fn_out = <<>>
    /\ running = 0
    /\ rpc = <<>>
    /\ nposts = <<>>

ApplyEnsure5 ==
    /\ pc = "fn_ready"
    /\ fn_out' = ensure_5_safe_captions(fn_in.candidates, fn_in.fallback_label)
    /\ pc' = "fn_done"
    /\ UNCHANGED <<inputs, u, strict_retry, posts, reply, calls, response, fn_in, srvvars>>

NextCaptions == ApplyEnsure5

SpecCaptions == InitCaptions /\ [][NextCaptions]_vars

\* ------------------------------------------------------------------------
\* Several uploads in one server process
\* ------------------------------------------------------------------------

\* Requests in flight in the process.
NRequests == 2
Requests == 1..NRequests

\* Posts of one request: two logical calls of each type, two posts each.
MaxPostsPerRequest == 8

InitServer ==
    /\ image_len = max_upload_bytes
    /\ img_ok = TRUE
    /\ api_key = TRUE
    /\ crop_preference = ""
    /\ pc = "server"
    /\ u = InitLocals
    /\ strict_retry = FALSE
    /\ posts = <<>>
    /\ reply = Malformed
    /\ calls = <<>>
    /\ response = NoResponse
    /\ fn_in = <<>>
    /\ fn_out = <<>>
    /\ running = 0
    /\ rpc = [r \in Requests |-> "new"]
    /\ nposts = [r \in Requests |-> 0]

handlervars == <<inputs, pc, u, strict_retry, posts, reply, calls, response, fnvars>>

\* The event loop starts the coroutine upload(); it runs to its only await,
\* file.read() of line 90, and gives the thread back.
UploadStart(r) ==
    /\ running = 0
    /\ rpc[r] = "new"
    /\ rpc' = [rpc EXCEPT ![r] = "reading"]
    /\ UNCHANGED <<running, nposts, handlervars>>

\* The body of the request has been read.
FileRead(r) ==
    /\ rpc[r] = "reading"
    /\ rpc' = [rpc EXCEPT ![r] = "ready"]
    /\ UNCHANGED <<running, nposts, handlervars>>

\* The event loop resumes the coroutine at line 91.  No await follows: it
\* runs on the loop's thread to its return (sends = FALSE: rejected upload,
\* unreadable image or no credentials) or into session.post, a synchronous
\* call that keeps the thread until the service answers or the timeout ends.
UploadResume(r, sends) ==
    /\ running = 0
    /\ rpc[r] = "ready"
    /\ IF sends
       THEN /\ rpc' = [rpc EXCEPT ![r] = "blocked"]
            /\ nposts' = [nposts EXCEPT ![r] = @ + 1]
            /\ running' = r
       ELSE /\ rpc' = [rpc EXCEPT ![r] = "done"]
            /\ UNCHANGED <<running, nposts>>
    /\ UNCHANGED handlervars

\* session.post returns or raises.
ServiceAnswers(r) ==
    /\ rpc[r] = "blocked"
    /\ rpc' = [rpc EXCEPT ![r] = "answered"]
    /\ UNCHANGED <<running, nposts, handlervars>>

\* The coroutine goes on after session.post: to the next post (a re-issue, a
\* strict retry or the second-pass call) or to its return.
UploadContinue(r, sends) ==
    /\ running = r
    /\ rpc[r] = "answered"
    /\ IF sends /\ nposts[r] < MaxPostsPerRequest
       THEN /\ rpc' = [rpc EXCEPT ![r] = "blocked"]
            /\ nposts' = [nposts EXCEPT ![r] = @ + 1]
            /\ UNCHANGED running
       ELSE /\ rpc' = [rpc EXCEPT ![r] = "done"]
            /\ running' = 0
            /\ UNCHANGED nposts
    /\ UNCHANGED handlervars

\* A step of the coroutine of request r.
UploadStep(r) ==
    \/ UploadStart(r)
    \/ \E sends \in BOOLEAN : UploadResume(r, sends)
    \/ \E sends \in BOOLEAN : UploadContinue(r, sends)

NextServer ==
    \/ \E r \in Requests : UploadStart(r)
    \/ \E r \in Requests : FileRead(r)
    \/ \E r \in Requests, sends \in BOOLEAN : UploadResume(r, sends)
    \/ \E r \in Requests : ServiceAnswers(r)
    \/ \E r \in Requests, sends \in BOOLEAN : UploadContinue(r, sends)

SpecServer == InitServer /\ [][NextServer]_vars

\* ------------------------------------------------------------------------
\* selection.py: pick_top_5
\* ------------------------------------------------------------------------

CropTypes == {"face", "mouth"}

\* sorted(candidates, key=score, reverse=True): a stable sort, so candidates
\* of equal score keep their order.
RECURSIVE RankedOf(_)
RankedOf(candidates) ==
    IF candidates = <<>> THEN <<>>
    ELSE LET r == RankedOf(SubSeq(candidates, 1, Len(candidates) - 1))
             c == candidates[Len(candidates)]
             k == Cardinality({i \in DOMAIN r : r[i].score >= c.score})
         IN  SubSeq(r, 1, k) \o <<c>> \o SubSeq(r, k + 1, Len(r))

\* per_image[idx] and mouth_count of _fill, which follow the list selected.
PerImage(selected, idx) == Cardinality({i \in DOMAIN selected : selected[i].src_index = idx})
MouthCount(selected) == Cardinality({i \in DOMAIN selected : selected[i].crop_type = "mouth"})

\* _fill without the limit on mouth candidates.
RECURSIVE FillSelected_nocap(_, _, _, _, _, _)
FillSelected_nocap(selected, ranked, i, max_per_image, max_mouth, target) ==
    IF i > Len(ranked) \/ Len(selected) >= target THEN selected
    ELSE LET cand == ranked[i]
             skip == \/ \E j \in DOMAIN selected :
                            /\ selected[j].src_index = cand.src_index
                            /\ selected[j].crop_type = cand.crop_type
                     \/ PerImage(selected, cand.src_index) >= max_per_image
         IN  FillSelected_nocap(IF skip THEN selected ELSE Append(selected, cand),
                                ranked, i + 1, max_per_image, max_mouth, target)

\* _fill, lines 108-132: the loop over ranked from its i-th candidate on.
RECURSIVE FillSelected(_, _, _, _, _, _)
FillSelected(selected, ranked, i, max_per_image, max_mouth, target) ==
    IF i > Len(ranked) \/ Len(selected) >= target THEN selected
    ELSE LET cand == ranked[i]
             skip == \/ \E j \in DOMAIN selected :
                            /\ selected[j].src_index = cand.src_index
                            /\ selected[j].crop_type = cand.crop_type
                     \/ PerImage(selected, cand.src_index) >= max_per_image
                     \/ (cand.crop_type = "mouth" /\ MouthCount(selected) >= max_mouth)
         IN  FillSelected(IF skip THEN selected ELSE Append(selected, cand),
                          ranked, i + 1, max_per_image, max_mouth, target)

\* A selection that is returned as it is.
PadSelected_none(selected, target) == selected

\* lines 145-146: selected[len(selected) % len(selected)] is selected[0].
RECURSIVE PadSelected(_, _)
PadSelected(selected, target) ==
    IF Len(selected) >= target THEN selected
    ELSE PadSelected(Append(selected, selected[(Len(selected) % Len(selected)) + 1]), target)

\* One pass that admits up to target candidates of an image from the start.
fill_passes_single(ranked, max_mouth, target) ==
    FillSelected(<<>>, ranked, 1, target, max_mouth, target)

\* The four calls of _fill, lines 134-141, with max_per_image 1, 2, 3, target.
fill_passes(ranked, max_mouth, target) ==
    LET s1 == FillSelected(<<>>, ranked, 1, 1, max_mouth, target)
        s2 == IF Len(s1) < target THEN FillSelected(s1, ranked, 1, 2, max_mouth, target) ELSE s1
        s3 == IF Len(s2) < target THEN FillSelected(s2, ranked, 1, 3, max_mouth, target) ELSE s2
    IN  IF Len(s3) < target THEN FillSelected(s3, ranked, 1, target, max_mouth, target) ELSE s3

\* pick_top_5, lines 97-148.
pick_top_5(candidates, max_mouth, target) ==
    IF candidates = <<>> THEN <<>>
    ELSE LET ranked == RankedOf(candidates)
             s4 == fill_passes(ranked, max_mouth, target)
             s5 == IF s4 = <<>> THEN <<ranked[1]>> ELSE s4
             padded == PadSelected(s5, target)
         IN  SubSeq(padded, 1, IF target < Len(padded) THEN target ELSE Len(padded))

\* Inputs of pick_top_5.
MaxCandidates == 3
PickSources == 0..2
PickScores == {1, 2}
PickTargets == {1, 2, 3, 5}
PickMaxMouth == 0..3
PickCandidates == [src_index : PickSources, crop_type : CropTypes, score : PickScores]

InitPick ==
    /\ image_len = 0
    /\ img_ok = FALSE
    /\ api_key = FALSE
    /\ crop_preference = ""
    /\ pc = "pick_ready"
    /\ u = InitLocals
    /\ strict_retry = FALSE
    /\ posts = <<>>
    /\ reply = Malformed
    /\ calls = <<>>
    /\ response = NoResponse
    /\ fn_in \in [candidates : SeqsUpTo(PickCandidates, MaxCandidates),
                  max_mouth : PickMaxMouth, target : PickTargets]
    /\ fn_out = <<>>
    /\ running = 0
    /\ rpc = <<>>
    /\ nposts = <<>>

ApplyPickTop5 ==
    /\ pc = "pick_ready"
    /\ fn_out' = pick_top_5(fn_in.candidates, fn_in.max_mouth, fn_in.target)
    /\ pc' = "pick_done"
    /\ UNCHANGED <<inputs, u, strict_retry, posts, reply, calls, response, fn_in, srvvars>>

NextPick == ApplyPickTop5

SpecPick == InitPick /\ [][NextPick]_vars

\* ------------------------------------------------------------------------
\* utils.py: extract_json_object on text
\* ------------------------------------------------------------------------

\* JSON values.  A string holds its characters, a number its digits, an array
\* its elements, an object its (key, value) pairs in insertion order with
\* distinct keys.
JStr(s) == [t |-> "str", v |-> s]
JNum(digits) == [t |-> "num", v |-> digits]
JArr(elements) == [t |-> "arr", v |-> elements]
JObj(pairs) == [t |-> "obj", v |-> pairs]
JNull == [t |-> "null", v |-> <<>>]

Digits == {"0", "1", "2", "3", "4", "5", "6", "7", "8", "9"}

\* The character of text at position i, or "" past its end.
At(text, i) == IF i \in 1..Len(text) THEN text[i] ELSE ""

\* The first position from i on that holds no whitespace.
SkipWs(text, i) ==
    LET S == {j \in i..(Len(text) + 1) : At(text, j) \notin Whitespace}
    IN  CHOOSE j \in S : \A k \in S : j <= k

\* The first position from i on that holds character c, or 0.
FindFrom(text, c, i) ==
    LET S == {j \in i..Len(text) : text[j] = c}
    IN  IF S = {} THEN 0 ELSE CHOOSE j \in S : \A k \in S : j <= k

\* The last position that holds character c, or 0.
RFind(text, c) ==
    LET S == {j \in 1..Len(text) : text[j] = c}
    IN  IF S = {} THEN 0 ELSE CHOOSE j \in S : \A k \in S : j >= k

ParseFail == [ok |-> FALSE, val |-> JNull, pos |-> 0]

\* dict[key] = value while an object is decoded: a repeated key keeps its
\* place and takes the last value.
PutPair(pairs, key, value) ==
    IF \E i \in DOMAIN pairs : pairs[i][1] = key
    THEN [i \in DOMAIN pairs |-> IF pairs[i][1] = key THEN <<key, value>> ELSE pairs[i]]
    ELSE Append(pairs, <<key, value>>)

\* A string literal that starts at the quote at position i (no escapes; a
\* control character inside it is an error).
ParseString(text, i) ==
    LET j == FindFrom(text, "\"", i + 1)
    IN  IF At(text, i) # "\"" \/ j = 0 THEN ParseFail
        ELSE IF \E k \in (i + 1)..(j - 1) : text[k] = "\n" THEN ParseFail
        ELSE [ok |-> TRUE, val |-> JStr(SubSeq(text, i + 1, j - 1)), pos |-> j + 1]

\* A number that starts at position i: a run of digits.
ParseNumber(text, i) ==
    LET S == {j \in i..(Len(text) + 1) : At(text, j) \notin Digits}
        j == CHOOSE j \in S : \A k \in S : j <= k
    IN  IF j = i THEN ParseFail
        ELSE [ok |-> TRUE, val |-> JNum(SubSeq(text, i, j - 1)), pos |-> j]

\* json.loads, the decoder: the value that starts at position i, the members
\* of an object from position i on, the elements of an array from position i.
\* Decoded are objects, arrays, strings and numbers written with digits.
RECURSIVE ParseValue(_, _), ParseMembers(_, _, _), ParseElements(_, _, _)
ParseValue(text, i) ==
    LET c == At(text, i)
        j == SkipWs(text, i + 1)
    IN  IF c = "{"
        THEN (IF At(text, j) = "}" THEN [ok |-> TRUE, val |-> JObj(<<>>), pos |-> j + 1]
              ELSE ParseMembers(text, j, <<>>))
        ELSE IF c = "["
        THEN (IF At(text, j) = "]" THEN [ok |-> TRUE, val |-> JArr(<<>>), pos |-> j + 1]
              ELSE ParseElements(text, j, <<>>))
        ELSE IF c = "\"" THEN ParseString(text, i)
        ELSE IF c \in Digits THEN ParseNumber(text, i)
        ELSE ParseFail

ParseMembers(text, i, acc) ==
    LET key == ParseString(text, i)
        colon == SkipWs(text, key.pos)
        value == ParseValue(text, SkipWs(text, colon + 1))
        after == SkipWs(text, value.pos)
        acc1 == PutPair(acc, key.val.v, value.val)
    IN  IF ~key.ok THEN ParseFail
        ELSE IF At(text, colon) # ":" THEN ParseFail
        ELSE IF ~value.ok THEN ParseFail
        ELSE IF At(text, after) = "}" THEN [ok |-> TRUE, val |-> JObj(acc1), pos |-> after + 1]
        ELSE IF At(text, after) = "," THEN ParseMembers(text, SkipWs(text, after + 1), acc1)
        ELSE ParseFail

ParseElements(text, i, acc) ==
    LET value == ParseValue(text, i)
        after == SkipWs(text, value.pos)
        acc1 == Append(acc, value.val)
    IN  IF ~value.ok THEN ParseFail
        ELSE IF At(text, after) = "]" THEN [ok |-> TRUE, val |-> JArr(acc1), pos |-> after + 1]
        ELSE IF At(text, after) = "," THEN ParseElements(text, SkipWs(text, after + 1), acc1)
        ELSE ParseFail

\* json.loads(s): one value with whitespace around it, or a JSONDecodeError.
json_loads(s) ==
    LET value == ParseValue(s, SkipWs(s, 1))
    IN  IF value.ok /\ SkipWs(s, value.pos) = Len(s) + 1 THEN value ELSE ParseFail

\* _try_loads, lines 11-18: the dict, or None (ok = FALSE).
try_loads(s) ==
    LET parsed == json_loads(s)
    IN  IF parsed.ok /\ parsed.val.t = "obj" THEN parsed ELSE ParseFail

\* _TRAILING_COMMA_RE.sub(r"\1", s): every comma that is followed by optional
\* whitespace and a closing brace or bracket is removed with that whitespace.
RECURSIVE SubTrailingComma(_, _)
SubTrailingComma(s, i) ==
    IF i > Len(s) THEN <<>>
    ELSE LET j == SkipWs(s, i + 1)
         IN  IF s[i] = "," /\ At(s, j) \in {"}", "]"}
             THEN <<s[j]>> \o SubTrailingComma(s, j + 1)
             ELSE <<s[i]>> \o SubTrailingComma(s, i + 1)

\* Three backquotes (U+0060).
Fence == <<"u0060", "u0060", "u0060">>

StartsWith(s, prefix) == Len(s) >= Len(prefix) /\ SubSeq(s, 1, Len(prefix)) = prefix

\* re.sub(r"^```(?:json)?\\s*", "", s): in the raw string \\s* is a backslash
\* followed by any number of letters s, so the fence is removed only when a
\* backslash follows it (or follows the word json).
SubFenceStart(s) ==
    LET tagged == Fence \o <<"j", "s", "o", "n", "\\">>
        bare == Fence \o <<"\\">>
    IN  IF StartsWith(s, tagged) THEN LStrip(SubSeq(s, Len(tagged) + 1, Len(s)), {"s"})
        ELSE IF StartsWith(s, bare) THEN LStrip(SubSeq(s, Len(bare) + 1, Len(s)), {"s"})
        ELSE s

\* re.sub(r"\\s*```$", "", s): a closing fence is removed only when a
\* backslash and any number of letters s come right before it.
SubFenceEnd(s) ==
    LET n == Len(s)
        body == IF n >= 3 THEN RStrip(SubSeq(s, 1, n - 3), {"s"}) ELSE <<>>
    IN  IF n >= 4 /\ SubSeq(s, n - 2, n) = Fence /\ body # <<>> /\ body[Len(body)] = "\\"
        THEN SubSeq(body, 1, Len(body) - 1)
        ELSE s

JsonError(msg) == [ok |-> FALSE, error |-> msg]
JsonDict(parsed) == [ok |-> TRUE, obj |-> parsed.val]

\* extract_json_object without the search for the outermost braces.
extract_json_object_noslice(text) ==
    LET stripped == Strip(text, Whitespace)
        candidate == IF StartsWith(stripped, Fence)
                     THEN Strip(SubFenceEnd(SubFenceStart(stripped)), Whitespace)
                     ELSE stripped
        parsed1 == try_loads(candidate)
        parsed2 == try_loads(SubTrailingComma(candidate, 1))
    IN  IF stripped = <<>> THEN JsonError("empty model response")
        ELSE IF parsed1.ok THEN JsonDict(parsed1)
        ELSE IF parsed2.ok THEN JsonDict(parsed2)
        ELSE JsonError("no JSON object found in model response")

\* extract_json_object, lines 21-54: the dict it returns or the ValueError
\* it raises.
extract_json_object(text) ==
    LET stripped == Strip(text, Whitespace)
        candidate == IF StartsWith(stripped, Fence)
                     THEN Strip(SubFenceEnd(SubFenceStart(stripped)), Whitespace)
                     ELSE stripped
        parsed1 == try_loads(candidate)
        parsed2 == try_loads(SubTrailingComma(candidate, 1))
        start == FindFrom(candidate, "{", 1)
        end == RFind(candidate, "}")
        sliced == SubSeq(candidate, start, end)
        parsed3 == try_loads(sliced)
        parsed4 == try_loads(SubTrailingComma(sliced, 1))
    IN  IF stripped = <<>> THEN JsonError("empty model response")
        ELSE IF parsed1.ok THEN JsonDict(parsed1)
        ELSE IF parsed2.ok THEN JsonDict(parsed2)
        ELSE IF start = 0 \/ end = 0 \/ end <= start
             THEN JsonError("no JSON object found in model response")
        ELSE IF parsed3.ok THEN JsonDict(parsed3)
        ELSE IF parsed4.ok THEN JsonDict(parsed4)
        ELSE JsonError("invalid JSON after extraction/repair")

\* ------------------------------------------------------------------------
\* Properties
\* ------------------------------------------------------------------------

\* json.dumps(value) with the default separators ", " and ": ".
RECURSIVE json_dumps(_), DumpMembers(_, _), DumpElements(_, _)
json_dumps(value) ==
    CASE value.t = "str" -> <<"\"">> \o value.v \o <<"\"">>
      [] value.t = "num" -> value.v
      [] value.t = "arr" -> <<"[">> \o DumpElements(value.v, 1) \o <<"]">>
      [] value.t = "obj" -> <<"{">> \o DumpMembers(value.v, 1) \o <<"}">>

DumpMembers(pairs, i) ==
    IF i > Len(pairs) THEN <<>>
    ELSE (IF i > 1 THEN <<",", " ">> ELSE <<>>)
         \o <<"\"">> \o pairs[i][1] \o <<"\"", ":", " ">> \o json_dumps(pairs[i][2])
         \o DumpMembers(pairs, i + 1)

DumpElements(elements, i) ==
    IF i > Len(elements) THEN <<>>
    ELSE (IF i > 1 THEN <<",", " ">> ELSE <<>>)
         \o json_dumps(elements[i]) \o DumpElements(elements, i + 1)

\* Inputs of extract_json_object: objects of up to MaxMembers members.
MaxMembers == 2

JsonKeys == {<<"a">>, <<"b">>, <<"k", "2">>}

\* Member values: a number, strings without and with commas, braces and
\* brackets, empty and non-empty arrays and objects.
JsonValues ==
    { JNum(<<"1">>),
      JStr(<<"x">>),
      JStr(<<"x", ",", "}">>),
      JStr(<<"{", ",", " ", "]">>),
      JArr(<<>>),
      JArr(<<JNum(<<"1">>), JStr(<<"x">>)>>),
      JArr(<<JObj(<<>>)>>),
      JObj(<<>>),
      JObj(<< <<(<<"b">>), JNum(<<"1">>)>> >>) }

JsonObjects ==
    { JObj(pairs) : pairs \in
        { p \in SeqsUpTo(JsonKeys \X JsonValues, MaxMembers) :
            \A i \in DOMAIN p, j \in DOMAIN p : i # j => p[i][1] # p[j][1] } }

\* The closing braces and brackets of a JSON text that stand outside string
\* literals and close a non-empty object or array.
TrailingCommaPositions(text) ==
    { i \in 2..Len(text) :
        /\ text[i] \in {"}", "]"}
        /\ Cardinality({k \in 1..(i - 1) : text[k] = "\""}) % 2 = 0
        /\ text[i - 1] \notin {"{", "["} }

InsertAt(text, i, c) == SubSeq(text, 1, i - 1) \o <<c>> \o SubSeq(text, i, Len(text))

JsonWord == <<"j", "s", "o", "n">>

\* The texts made of object obj: its serialization, the serialization in a
\* code fence without and with the word json, in a fence followed by a
\* backslash, and with one trailing comma.
TextsOf(obj) ==
    LET dump == json_dumps(obj)
    IN  { [kind |-> "dump", obj |-> obj, text |-> dump],
          [kind |-> "fence", obj |-> obj,
           text |-> Fence \o <<"\n">> \o dump \o <<"\n">> \o Fence],
          [kind |-> "fence_json", obj |-> obj,
           text |-> Fence \o JsonWord \o <<"\n">> \o dump \o <<"\n">> \o Fence],
          [kind |-> "fence_backslash", obj |-> obj,
           text |-> Fence \o JsonWord \o <<"\\", "s">> \o dump \o <<"\\", "s">> \o Fence] }
        \cup { [kind |-> "trailing_comma", obj |-> obj, text |-> InsertAt(dump, i, ",")] :
                 i \in TrailingCommaPositions(dump) }

\* Texts that are no JSON object: empty, blank, no JSON, arrays, scalars.
NonObjectTexts ==
    { [kind |-> "empty", obj |-> JNull, text |-> <<>>],
      [kind |-> "blank", obj |-> JNull, text |-> <<" ", "\n", " ">>],
      [kind |-> "no_json", obj |-> JNull, text |-> <<"n", "o", "t", " ", "j", "s", "o", "n">>],
      [kind |-> "no_json", obj |-> JNull, text |-> <<"a", "{", "b">>],
      [kind |-> "no_json", obj |-> JNull, text |-> <<"}", "a", "{">>],
      [kind |-> "no_json", obj |-> JNull, text |-> <<"{", "a", "}">>],
      [kind |-> "scalar", obj |-> JNull, text |-> <<"1">>],
      [kind |-> "scalar", obj |-> JNull, text |-> json_dumps(JStr(<<"x">>))],
      [kind |-> "scalar", obj |-> JNull, text |-> json_dumps(JStr(<<"{", "}">>))] }
    \cup { [kind |-> "array", obj |-> JNull, text |-> json_dumps(JArr(elements))] :
             elements \in SeqsUpTo({JNum(<<"1">>), JStr(<<"x">>), JArr(<<>>), JObj(<<>>),
                                    JObj(<< <<(<<"a">>), JNum(<<"1">>)>> >>)}, MaxMembers) }

ExtractInputs == NonObjectTexts \cup UNION {TextsOf(obj) : obj \in JsonObjects}

InitExtract ==
    /\ image_len = 0
    /\ img_ok = FALSE
    /\ api_key = FALSE
    /\ crop_preference = ""
    /\ pc = "extract_ready"
    /\ u = InitLocals
    /\ strict_retry = FALSE
    /\ posts = <<>>
    /\ reply = Malformed
    /\ calls = <<>>
    /\ response = NoResponse
    /\ fn_in \in ExtractInputs
    /\ fn_out = <<>>
    /\ running = 0
    /\ rpc = <<>>
    /\ nposts = <<>>

ApplyExtract ==
    /\ pc = "extract_ready"
    /\ fn_out' = extract_json_object(fn_in.text)
    /\ pc' = "extract_done"
    /\ UNCHANGED <<inputs, u, strict_retry, posts, reply, calls, response, fn_in, srvvars>>

NextExtract == ApplyExtract

SpecExtract == InitExtract /\ [][NextExtract]_vars

\* ------------------------------------------------------------------------
\* meme_generator.py: the crop geometry
\* ------------------------------------------------------------------------

Min2(a, b) == IF a <= b THEN a ELSE b
Max2(a, b) == IF a >= b THEN a ELSE b

\* The box (left, upper, right, lower) of Image.crop, in pixels of the image.
Rect(l, t, r, b) == [l |-> l, t |-> t, r |-> r, b |-> b]
RectW(rect) == rect.r - rect.l
RectH(rect) == rect.b - rect.t

\* center_square_crop, lines 42-47, of the region rect of the image.
center_square_crop(rect) ==
    LET w == RectW(rect)
        h == RectH(rect)
        side == Min2(w, h)
        left == (w - side) \div 2
        top == (h - side) \div 2
    IN  Rect(rect.l + left, rect.t + top, rect.l + left + side, rect.t + top + side)

\* The 96 of lines 77, 89 and 97.
FocusMinSide == 96

\* target_max of line 81.
FocusTargetMax == 320

\* The fractions 0.45, 0.6 and 0.78 of line 96, in hundredths.
FocusFractions == <<45, 60, 78>>

\* The size of the downscaled copy, lines 79-86.
SmallSize(w, h) ==
    LET max_side == Max2(w, h)
    IN  IF max_side > FocusTargetMax
        THEN <<Max2(1, (w * FocusTargetMax) \div max_side),
               Max2(1, (h * FocusTargetMax) \div max_side)>>
        ELSE <<w, h>>

\* sizes of lines 95-96.
FocusSizes(min_side) ==
    SelectSeq([i \in 1..3 |-> (min_side * FocusFractions[i]) \div 100],
              LAMBDA s : s >= FocusMinSide)

\* The candidates (x, y, side) of lines 105-116 for the grid indexes in steps.
GridCandidates(sw, sh, side, steps) ==
    IF sw - side = 0 /\ sh - side = 0 THEN {<<0, 0, side>>}
    ELSE {<<((sw - side) * xi) \div 9, ((sh - side) * yi) \div 9, side>> : xi \in steps, yi \in steps}

\* The values best can have after the loops of lines 104-130: the scores
\* depend on the pixels, so any candidate can be the best one.  <<0, 0, 0>>
\* when the function returns before the search.
FocusChoices(w, h, steps) ==
    LET small == SmallSize(w, h)
        sizes == FocusSizes(Min2(small[1], small[2]))
    IN  IF Min2(w, h) < FocusMinSide \/ Min2(small[1], small[2]) < FocusMinSide \/ sizes = <<>>
        THEN {<<0, 0, 0>>}
        ELSE UNION {GridCandidates(small[1], small[2], sizes[i], steps) : i \in DOMAIN sizes}

\* auto_focus_square_crop without the returns of lines 77-78, 89-90 and
\* 98-99: the crop is cut at best whatever the size of the image.
auto_focus_square_crop_noreturn(w, h, best) ==
    LET max_side == Max2(w, h)
        scaled == max_side > FocusTargetMax
        ox0 == IF scaled THEN (best[1] * max_side) \div FocusTargetMax ELSE best[1]
        oy0 == IF scaled THEN (best[2] * max_side) \div FocusTargetMax ELSE best[2]
        oside0 == IF scaled THEN (best[3] * max_side) \div FocusTargetMax ELSE best[3]
        oside == Min2(oside0, Min2(w, h))
        ox == Max2(0, Min2(w - oside, ox0))
        oy == Max2(0, Min2(h - oside, oy0))
    IN  [rect |-> center_square_crop(Rect(ox, oy, ox + oside, oy + oside)), path |-> "grid"]

\* auto_focus_square_crop, lines 70-143, for an image of w x h pixels whose
\* search ends with best: the crop box and the way taken.
auto_focus_square_crop(w, h, best) ==
    LET small == SmallSize(w, h)
        min_side == Min2(small[1], small[2])
        max_side == Max2(w, h)
        scaled == max_side > FocusTargetMax
        ox0 == IF scaled THEN (best[1] * max_side) \div FocusTargetMax ELSE best[1]
        oy0 == IF scaled THEN (best[2] * max_side) \div FocusTargetMax ELSE best[2]
        oside0 == IF scaled THEN (best[3] * max_side) \div FocusTargetMax ELSE best[3]
        oside == Min2(oside0, Min2(w, h))
        ox == Max2(0, Min2(w - oside, ox0))
        oy == Max2(0, Min2(h - oside, oy0))
    IN  IF Min2(w, h) < FocusMinSide \/ min_side < FocusMinSide \/ FocusSizes(min_side) = <<>>
        THEN [rect |-> center_square_crop(Rect(0, 0, w, h)), path |-> "center"]
        ELSE [rect |-> center_square_crop(Rect(ox, oy, ox + oside, oy + oside)), path |-> "grid"]

\* clamp of utils.py, line 57.
clamp(value, low, high) == Max2(low, Min2(high, value))

\* The smallest integer not below n / d (math.ceil), d > 0.
CeilDiv(n, d) == -((-n) \div d)

\* Lengths of square_from_box are counted in units of 1/200 pixel, and the
\* fields of a box in hundredths, so that the products and halves of lines
\* 303-315 are whole numbers.
BoxUnit == 200

\* The pixel rectangle (l, t, r, b) of square_from_box, lines 301-334.
box_pixel_rect(w, h, box) ==
    LET left == 2 * clamp(box.x, 0, 100) * w
        top == 2 * clamp(box.y, 0, 100) * h
        bw == 2 * clamp(box.w, 5, 100) * w
        bh == 2 * clamp(box.h, 5, 100) * h
        cx == left + bw \div 2
        cy == top + bh \div 2
        side == Min2(Max2(BoxUnit, Min2(bw, bh)), BoxUnit * Min2(w, h))
        half == side \div 2
        l0 == cx - half
        t0 == cy - half
        r0 == cx + half
        b0 == cy + half
        l1 == IF l0 < 0 THEN 0 ELSE l0
        r1 == IF l0 < 0 THEN r0 - l0 ELSE r0
        t1 == IF t0 < 0 THEN 0 ELSE t0
        b1 == IF t0 < 0 THEN b0 - t0 ELSE b0
        l2 == IF r1 > BoxUnit * w THEN l1 - (r1 - BoxUnit * w) ELSE l1
        r2 == IF r1 > BoxUnit * w THEN BoxUnit * w ELSE r1
        t2 == IF b1 > BoxUnit * h THEN t1 - (b1 - BoxUnit * h) ELSE t1
        b2 == IF b1 > BoxUnit * h THEN BoxUnit * h ELSE b1
    IN  Rect(Max2(0, l2 \div BoxUnit), Max2(0, t2 \div BoxUnit),
             Min2(w, CeilDiv(r2, BoxUnit)), Min2(h, CeilDiv(b2, BoxUnit)))

\* square_from_box without the fallback of lines 336-337.
square_from_box_nofallback(w, h, box, best) ==
    LET box_rect == box_pixel_rect(w, h, box)
    IN  [rect |-> center_square_crop(box_rect), path |-> "box", box_rect |-> box_rect]

\* square_from_box, lines 300-340: the crop box, the way taken and the pixel
\* rectangle of lines 331-334.  best is the outcome of the search should the
\* function go on to auto_focus_square_crop.
square_from_box(w, h, box, best) ==
    LET box_rect == box_pixel_rect(w, h, box)
    IN  IF RectW(box_rect) <= 10 \/ RectH(box_rect) <= 10
        THEN [rect |-> auto_focus_square_crop(w, h, best).rect, path |-> "auto_focus",
              box_rect |-> box_rect]
        ELSE [rect |-> center_square_crop(box_rect), path |-> "box", box_rect |-> box_rect]

\* _crop_rect_from_box, lines 146-157: the box of roi = img.crop(...).
crop_rect_from_box(w, h, box) ==
    LET left == (clamp(box.x, 0, 100) * w) \div 100
        top == (clamp(box.y, 0, 100) * h) \div 100
        bw == (clamp(box.w, 5, 100) * w) \div 100
        bh == (clamp(box.h, 5, 100) * h) \div 100
        right == Max2(left + 2, Min2(w, left + bw))
        bottom == Max2(top + 2, Min2(h, top + bh))
    IN  Rect(Max2(0, Min2(w - 2, left)), Max2(0, Min2(h - 2, top)), right, bottom)

\* Lengths of the mouth close-ups are counted in units of 1/10000 pixel, so
\* that the products with 0.26 ... 0.72 and 0.05, 0.06 are whole numbers.
MouthUnit == 10000

NoMouth == [found |-> FALSE, fx |-> 0, fy |-> 0]

\* The window of the reduced region that lines 170-181 scan, and whether the
\* point (fx, fy), in hundredths of the region, can be a centroid of pixels
\* of that window (lines 190-213).
MouthWindow(rw, rh) ==
    LET max_side == Max2(rw, rh)
        sw == IF max_side > 220 THEN Max2(1, (rw * 220) \div max_side) ELSE rw
        sh == IF max_side > 220 THEN Max2(1, (rh * 220) \div max_side) ELSE rh
    IN  [sw |-> sw, sh |-> sh,
         x1 |-> (sw * 12) \div 100, x2 |-> (sw * 88) \div 100,
         y1 |-> (sh * 30) \div 100, y2 |-> (sh * 86) \div 100]

InMouthWindow(win, mouth) ==
    /\ win.x1 * 100 <= mouth.fx * win.sw /\ mouth.fx * win.sw <= (win.x2 - 1) * 100
    /\ win.y1 * 100 <= mouth.fy * win.sh /\ mouth.fy * win.sh <= (win.y2 - 1) * 100

\* _locate_mouth_like_point, lines 160-214: None for a region under 20 px
\* or a window of 4 px or less; otherwise what the pixels give, mouth: None
\* or a centroid inside the window, given as hundredths (fx, fy) of the
\* width and height of the region.
locate_mouth_like_point(rw, rh, mouth) ==
    LET win == MouthWindow(rw, rh)
    IN  IF rw < 20 \/ rh < 20 THEN NoMouth
        ELSE IF win.x2 <= win.x1 + 4 \/ win.y2 <= win.y1 + 4 THEN NoMouth
        ELSE IF mouth.found /\ InMouthWindow(win, mouth) THEN mouth
        ELSE NoMouth

\* offsets of lines 242 and 285, in hundredths.
MouthOffsets == << <<0, 0>>, <<-5, 0>>, <<5, 0>>, <<0, -5>>, <<0, 5>> >>

\* mouth_closeup_square_crop, lines 217-258: the crop box in pixels of the image.
mouth_closeup_square_crop(w, h, box, variant, mouth) ==
    LET roi == crop_rect_from_box(w, h, box)
        rw == RectW(roi)
        rh == RectH(roi)
        roi_min == Min2(rw, rh)
        m == locate_mouth_like_point(rw, rh, mouth)
        cx0 == IF m.found THEN m.fx * rw * 100 ELSE rw * 5000
        cy0 == IF m.found THEN m.fy * rh * 100 ELSE rh * 5600
        cy1 == Min2(cy0, rh * 6400)
        side == Max2(roi_min * 3800, Min2(roi_min * 7000, roi_min * 5200))
        off == MouthOffsets[(variant % 5) + 1]
        cx == cx0 + (off[1] * side) \div 100
        cy == cy1 + (off[2] * side) \div 100 + (6 * side) \div 100
        left == Max2(0, Min2(rw * MouthUnit - side, cx - side \div 2)) \div MouthUnit
        top == Max2(0, Min2(rh * MouthUnit - side, cy - side \div 2)) \div MouthUnit
        right == Min2(rw * MouthUnit, left * MouthUnit + side) \div MouthUnit
        bottom == Min2(rh * MouthUnit, top * MouthUnit + side) \div MouthUnit
    IN  center_square_crop(Rect(roi.l + left, roi.t + top, roi.l + right, roi.t + bottom))

\* mouth_closeup_square_crop_global, lines 261-297.
mouth_closeup_square_crop_global(w, h, variant, mouth) ==
    LET search_h == (h * 78) \div 100
        m == locate_mouth_like_point(w, Max2(1, search_h), mouth)
        min_side == Min2(w, h)
        cx0 == IF m.found THEN m.fx * w * 100 ELSE w * 5000
        cy0 == IF m.found THEN m.fy * Max2(1, search_h) * 100 ELSE h * 4200
        side0 == IF m.found THEN min_side * 3400 ELSE min_side * 4200
        side == Max2(min_side * 2600, Min2(min_side * 5500, side0))
        off == MouthOffsets[(variant % 5) + 1]
        cx == cx0 + (off[1] * side) \div 100
        cy1 == cy0 + (off[2] * side) \div 100 + (6 * side) \div 100
        cy == Min2(cy1, h * 7200)
        left == Max2(0, Min2(w * MouthUnit - side, cx - side \div 2)) \div MouthUnit
        top == Max2(0, Min2(h * MouthUnit - side, cy - side \div 2)) \div MouthUnit
    IN  center_square_crop(Rect(left, top, (left * MouthUnit + side) \div MouthUnit,
                                (top * MouthUnit + side) \div MouthUnit))

\* Inputs of the crop functions: sides of images, boxes in hundredths, what
\* the mouth locator can answer for a region of at least 20 px.
ImageSides == {2, 3, 19, 20, 27, 50, 95, 96, 124, 200, 330, 700}
BoxImageSides == {2, 3, 50, 124, 330}
BoxPositions == {0, 50, 100}
BoxSizes == {5, 50, 100}
BoxSamples == [x : BoxPositions, y : BoxPositions, w : BoxSizes, h : BoxSizes]
MouthSamples ==
    {NoMouth} \cup [found : {TRUE}, fx : {12, 50, 87}, fy : {30, 50, 85}]
AllSteps == 0..9
CornerSteps == {0, 9}
NoBoxInput == [x |-> 0, y |-> 0, w |-> 100, h |-> 100]

InitGeometry ==
    /\ image_len = 0
    /\ img_ok = TRUE
    /\ api_key = FALSE
    /\ crop_preference = ""
    /\ pc = "crop_ready"
    /\ u = InitLocals
    /\ strict_retry = FALSE
    /\ posts = <<>>
    /\ reply = Malformed
    /\ calls = <<>>
    /\ response = NoResponse
    /\ \E w \in ImageSides, h \in ImageSides :
          \/ \E best \in FocusChoices(w, h, AllSteps) :
                fn_in = [fn |-> "auto_focus_square_crop", w |-> w, h |-> h, box |-> NoBoxInput,
                         variant |-> 0, mouth |-> NoMouth, best |-> best]
          \/ \E variant \in 0..4, mouth \in MouthSamples :
                fn_in = [fn |-> "mouth_closeup_square_crop_global", w |-> w, h |-> h,
                         box |-> NoBoxInput, variant |-> variant, mouth |-> mouth,
                         best |-> <<0, 0, 0>>]
          \/ /\ w \in BoxImageSides
             /\ h \in BoxImageSides
             /\ \E box \in BoxSamples :
                   \/ \E best \in FocusChoices(w, h, CornerSteps) :
                         fn_in = [fn |-> "square_from_box", w |-> w, h |-> h, box |-> box,
                                  variant |-> 0, mouth |-> NoMouth, best |-> best]
                   \/ \E variant \in 0..4, mouth \in MouthSamples :
                         fn_in = [fn |-> "mouth_closeup_square_crop", w |-> w, h |-> h,
                                  box |-> box, variant |-> variant, mouth |-> mouth,
                                  best |-> <<0, 0, 0>>]
    /\ fn_out = <<>>
    /\ running = 0
    /\ rpc = <<>>
    /\ nposts = <<>>

CropDone(result) ==
    /\ fn_out' = result
    /\ pc' = "crop_done"
    /\ UNCHANGED <<inputs, u, strict_retry, posts, reply, calls, response, fn_in, srvvars>>

ApplyAutoFocus ==
    /\ pc = "crop_ready" /\ fn_in.fn = "auto_focus_square_crop"
    /\ CropDone(auto_focus_square_crop(fn_in.w, fn_in.h, fn_in.best))

ApplySquareFromBox ==
    /\ pc = "crop_ready" /\ fn_in.fn = "square_from_box"
    /\ CropDone(square_from_box(fn_in.w, fn_in.h, fn_in.box, fn_in.best))

ApplyMouthCloseup ==
    /\ pc = "crop_ready" /\ fn_in.fn = "mouth_closeup_square_crop"
    /\ CropDone([rect |-> mouth_closeup_square_crop(fn_in.w, fn_in.h, fn_in.box, fn_in.variant, fn_in.mouth),
                 path |-> "mouth"])

ApplyMouthCloseupGlobal ==
    /\ pc = "crop_ready" /\ fn_in.fn = "mouth_closeup_square_crop_global"
    /\ CropDone([rect |-> mouth_closeup_square_crop_global(fn_in.w, fn_in.h, fn_in.variant, fn_in.mouth),
                 path |-> "mouth"])

NextGeometry ==
    \/ ApplyAutoFocus
    \/ ApplySquareFromBox
    \/ ApplyMouthCloseup
    \/ ApplyMouthCloseupGlobal

SpecGeometry == InitGeometry /\ [][NextGeometry]_vars

\* -------------------------------------------------------------------------
\* The user message and temperature of the two service calls
\* (openrouter_client.py, lines 70-91 and 178-194).  A text is given by the
\* number of characters that str.strip() keeps (core) and removes (pad);
\* NoText stands for None.
\* -------------------------------------------------------------------------
NoText == [given |-> FALSE, core |-> 0, pad |-> 0]
Text(core, pad) == [given |-> TRUE, core |-> core, pad |-> pad]

\* hint[:180] of lines 78 and 186.
HintMax == 180

\* prev[:1800] of lines 86-87.
PrevMax == 1800

\* The message that is sent when strict_retry is not set: base_text.
BaseMessage(user_prompt) ==
    [retry |-> FALSE, hint_len |-> 0, with_previous |-> FALSE, previous_len |-> 0,
     user_prompt |-> user_prompt]

\* hint = (error_hint or "").strip(); hint = hint[:180] if hint else "".
HintLen(error_hint) ==
    IF error_hint.given THEN Min2(error_hint.core, HintMax) ELSE 0

\* analyze_image, lines 74-91: temperature in hundredths and the user message.
analyze_image_message(strict, error_hint, previous_output, user_prompt, openrouter_temperature) ==
    IF strict
    THEN [temperature |-> 0,
          message |-> [retry |-> TRUE,
                       hint_len |-> HintLen(error_hint),
                       with_previous |-> previous_output.given /\ previous_output.core + previous_output.pad > 0,
                       previous_len |-> IF previous_output.given THEN Min2(previous_output.core, PrevMax) ELSE 0,
                       user_prompt |-> user_prompt]]
    ELSE [temperature |-> openrouter_temperature, message |-> BaseMessage(user_prompt)]

\* captions_for_montage, lines 178-194: it has no previous_output parameter.
captions_for_montage_message(strict, error_hint, user_prompt, openrouter_temperature) ==
    IF strict
    THEN [temperature |-> 0,
          message |-> [retry |-> TRUE,
                       hint_len |-> HintLen(error_hint),
                       with_previous |-> FALSE,
                       previous_len |-> 0,
                       user_prompt |-> user_prompt]]
    ELSE [temperature |-> Min2(20, openrouter_temperature), message |-> BaseMessage(user_prompt)]

\* Lengths of the error message str(e) and of the raw output content_text of
\* the failed attempt, and settings.openrouter_temperature in hundredths.
ErrorTexts == {Text(core, 0) : core \in {1, 40, 179, 180, 181, 400}}
RawOutputs == {Text(core, pad) : core \in {0, 1, 1799, 1800, 1801, 5000}, pad \in {0, 3}}
Temperatures == {0, 10, 20, 70}

\* A service call as upload makes it: the first call of a stage (main.py
\* lines 163 and 294) or the strict retry after content1 failed with e1
\* (lines 169, 184 and 300).
InitPrompt ==
    /\ image_len = 0
    /\ img_ok = TRUE
    /\ api_key = TRUE
    /\ crop_preference = ""
    /\ pc = "prompt_ready"
    /\ u = InitLocals
    /\ strict_retry = FALSE
    /\ posts = <<>>
    /\ reply = Malformed
    /\ calls = <<>>
    /\ response = NoResponse
    /\ \E call \in {"analyze", "montage"}, user_prompt \in BOOLEAN, temperature \in Temperatures :
          \/ fn_in = [call |-> call, strict_retry |-> FALSE, content1 |-> NoText, e1 |-> NoText,
                      user_prompt |-> user_prompt, openrouter_temperature |-> temperature]
          \/ \E content1 \in RawOutputs, e1 \in ErrorTexts :
                fn_in = [call |-> call, strict_retry |-> TRUE, content1 |-> content1, e1 |-> e1,
                         user_prompt |-> user_prompt, openrouter_temperature |-> temperature]
    /\ fn_out = <<>>
    /\ running = 0
    /\ rpc = <<>>
    /\ nposts = <<>>

PromptDone(payload) ==
    /\ fn_out' = payload
    /\ pc' = "prompt_done"
    /\ UNCHANGED <<inputs, u, strict_retry, posts, reply, calls, response, fn_in, srvvars>>

\* _call_ai, main.py lines 146-159, with the arguments of lines 163, 169, 184.
CallAnalyzeImage ==
    /\ pc = "prompt_ready" /\ fn_in.call = "analyze"
    /\ PromptDone(analyze_image_message(fn_in.strict_retry, fn_in.e1, fn_in.content1,
                                        fn_in.user_prompt, fn_in.openrouter_temperature))

\* The calls of main.py lines 294 and 300: error_hint=str(e0), nothing else.
CallCaptionsForMontage ==
    /\ pc = "prompt_ready" /\ fn_in.call = "montage"
    /\ PromptDone(captions_for_montage_message(fn_in.strict_retry, fn_in.e1,
                                               fn_in.user_prompt, fn_in.openrouter_temperature))

NextPrompt ==
    \/ CallAnalyzeImage
    \/ CallCaptionsForMontage

SpecPrompt == InitPrompt /\ [][NextPrompt]_vars

\* -------------------------------------------------------------------------
\* sanitize_caption applied on its own
\* -------------------------------------------------------------------------

\* Longest text given to sanitize_caption.
MaxTextLen == 4

\* A letter, the two whitespace characters, a full stop, a zero-width space
\* and the two characters of the pattern of line 48.
TextAlphabet == {"a", " ", "\n", ".", "u200B", "\\", "s"}

SanitizeInputs == SeqsUpTo(TextAlphabet, MaxTextLen)

InitSanitize ==
    /\ image_len = 0
    /\ img_ok = FALSE
    /\ api_key = FALSE
    /\ crop_preference = ""
    /\ pc = "sanitize_ready"
    /\ u = InitLocals
    /\ strict_retry = FALSE
    /\ posts = <<>>
    /\ reply = Malformed
    /\ calls = <<>>
    /\ response = NoResponse
    /\ fn_in \in SanitizeInputs
    /\ fn_out = <<>>
    /\ running = 0
    /\ rpc = <<>>
    /\ nposts = <<>>

ApplySanitize ==
    /\ pc = "sanitize_ready"
    /\ fn_out' = sanitize_caption(fn_in)
    /\ pc' = "sanitize_done"
    /\ UNCHANGED <<inputs, u, strict_retry, posts, reply, calls, response, fn_in, srvvars>>

NextSanitize == ApplySanitize

SpecSanitize == InitSanitize /\ [][NextSanitize]_vars

Accepted == image_len > 0 /\ image_len <= max_upload_bytes

AfterAnalysisStage == pc \in {"montage_wait", "montage_got", "render", "done"}

CallsOf(call) == SelectSeq(calls, LAMBDA c : c.call = call)

\* Steps a client call can still take: two posts, each awaited then handled.
StepsLeftInCall ==
    (IF Len(posts) = 1 THEN 2 ELSE 0) + (IF pc \in {"analyze_wait", "montage_wait"} THEN 2 ELSE 1)

\* An upper bound of the number of steps to the response.
StepsLeft ==
    CASE pc = "start" -> 20
      [] pc \in {"analyze_wait", "analyze_got"} ->
            10 + (IF strict_retry THEN 0 ELSE 4) + StepsLeftInCall
      [] pc \in {"montage_wait", "montage_got"} ->
            1 + (IF strict_retry THEN 0 ELSE 4) + StepsLeftInCall
      [] pc = "render" -> 1
      [] OTHER -> 0

Positions ==
    {"start", "analyze_wait", "analyze_got", "montage_wait", "montage_got", "render", "done"}

GoodResponse ==
    /\ response.status_code = 200
    /\ Len(response.results) = 5
    /\ \A i \in 1..5 : response.results[i].caption # <<>>

\* C1: every non-empty upload of accepted size ends, whatever the service and
\* the image decoder do, with a normal response of exactly 5 results whose
\* captions are non-empty.
\* Termination is stated with a variant: the handler is always at a position
\* that has a step, and every step lowers StepsLeft, a natural number.
C1_CompleteOutput ==
    /\ [](Accepted /\ pc = "done" => GoodResponse)
    /\ [](pc \in Positions /\ StepsLeft >= 0 /\ (StepsLeft = 0 <=> pc = "done"))
    /\ [][StepsLeft' < StepsLeft]_vars

\* Both service calls raised and the response is complete all the same.
C1_Witness ==
    /\ pc = "done" /\ Accepted /\ img_ok /\ api_key
    /\ \E i \in DOMAIN calls : calls[i].call = "analyze" /\ calls[i].outcome = "raised"
    /\ \E i \in DOMAIN calls : calls[i].call = "montage" /\ calls[i].outcome = "raised"
    /\ GoodResponse

\* C2: ensure_5_safe_captions returns, for any list of candidate texts and
\* any label, exactly 5 texts, each non-empty and at most 60 characters long.
C2_FiveBoundedCaptions ==
    pc = "fn_done" =>
        /\ Len(fn_out.captions) = 5
        /\ \A i \in 1..5 :
              /\ fn_out.captions[i] # <<>>
              /\ Len(fn_out.captions[i]) <= MaxCaptionLen

NCalls(log, call) == Len(SelectSeq(log, LAMBDA c : c.call = call))

CallTypes == {"analyze", "montage"}

GotPc(call) == IF call = "analyze" THEN "analyze_got" ELSE "montage_got"

ResponseError(call, content) ==
    IF call = "analyze" THEN ai_response_error(content) ELSE captions_response_error(content)

\* A 200 response whose content parsed and validated has just been received.
GoodReply(call) ==
    pc = GotPc(call) /\ LastPost.status = "200" /\ ResponseError(call, reply) = ""

\* C3: per call type, a first response that fails normalization or
\* validation is followed by exactly one call with strict_retry = true; a
\* failure of that second attempt starts no third call and is a hard error
\* for the pipeline; so there are at most 2 calls per type and ai_calls <= 2.
C3_SingleStrictRetry ==
    /\ [](\A call \in CallTypes :
            LET cs == CallsOf(call)
            IN  /\ Len(cs) <= 2
                /\ (Len(cs) >= 1 => ~cs[1].strict_retry)
                /\ (Len(cs) = 2 => cs[2].strict_retry /\ cs[1].outcome = "returned"))
    /\ [](u.ai_calls = Len(CallsOf("analyze")) /\ u.ai_calls <= 2)
    /\ [][\A call \in CallTypes :
            /\ (pc = GotPc(call) /\ ~strict_retry /\ LastPost.status = "200"
                    /\ ResponseError(call, reply) # "")
                 => /\ NCalls(calls', call) = NCalls(calls, call) + 1
                    /\ calls'[Len(calls')] = NewCall(call, TRUE, ResponseError(call, reply))
            /\ (pc = GotPc(call) /\ strict_retry /\ pc' # pc /\ ~GoodReply(call)
                    /\ Len(posts') # Len(posts) + 1)
                 => /\ NCalls(calls', call) = NCalls(calls, call)
                    /\ IF call = "analyze"
                       THEN u'.fallback_used /\ ~u'.used_ai /\ u'.crop_boxes = <<>>
                       ELSE u'.captions_ai_error # "" /\ u'.captions = u.captions
          ]_vars

\* Both attempts of the analysis failed, and so did both attempts of the
\* montage captions.
C3_Witness ==
    /\ pc = "done"
    /\ Len(CallsOf("analyze")) = 2 /\ ~u.used_ai /\ u.ai_calls = 2
    /\ Len(CallsOf("montage")) = 2 /\ ~u.captions_ai_used

\* C4: in both client calls, a first response with status 400 or 422 is
\* followed by exactly one re-issue without response_format, before any
\* normalization; any other non-success status of the first response fails
\* the call at once; a non-success status of the re-issued request fails the call.
C4_ReissueOnlyOn400Or422 ==
    [][(pc = "analyze_got" \/ pc = "montage_got") =>
        LET p == LastPost
            reissued == /\ posts' = Append(posts, [p EXCEPT !.response_format = FALSE,
                                                           !.status = "pending"])
                        /\ u' = u
                        /\ calls' = calls
            failed == calls'[Len(calls)].outcome = "raised"
        IN  /\ (p.response_format /\ p.status \in {"400", "422"}) => reissued
            /\ (p.response_format /\ p.status \in Statuses \ {"200", "400", "422"})
                  => (~reissued /\ failed)
            /\ (~p.response_format /\ p.status # "200") => (~reissued /\ failed)
    ]_vars

\* The five captions the pipeline holds when no service caption is used.
MouthBaseline == [i \in 1..5 |-> MOUTH_CLOSEUP_CAPTIONS[i]]

UncertainFallback == SubSeq(CAPTIONS_FALLBACK["uncertain"], 1, 5)

StaticCaptionLists ==
    {SubSeq(CAPTIONS_FALLBACK[l], 1, 5) : l \in ExpressionLabels} \cup {MouthBaseline}

\* The image analysis was attempted and ended in a hard error.
HardError == AfterAnalysisStage /\ u.ai_attempted /\ ~u.used_ai

AllCropsHeuristic ==
    /\ Len(u.crops_512) = 5
    /\ \A i \in 1..5 : u.crops_512[i].box = NoBox

\* C5 as stated: after a hard error of the image analysis the response has
\* fallback_used, no AI crop box, five heuristic crops and five static captions.
C5_StaticAfterHardError ==
    (pc = "done" /\ HardError) =>
        /\ u.fallback_used
        /\ u.crop_boxes = <<>>
        /\ AllCropsHeuristic
        /\ u.captions \in StaticCaptionLists

\* C5 amended: after a hard error of the image analysis, fallback_used holds,
\* no AI crop box is used, the five crops are heuristic, and the captions are
\* static ones unless the second-pass montage call succeeded, in which case
\* the five captions are those of that call.
C5_FallbackAfterHardError ==
    HardError =>
        /\ u.fallback_used
        /\ u.crop_boxes = <<>>
        /\ AllCropsHeuristic
        /\ u.captions_ai_used <=> u.captions_source = "ai_crops"
        /\ ~u.captions_ai_used =>
              u.captions \in {UncertainFallback, MouthBaseline}
        /\ u.captions_ai_used =>
              /\ pc \in {"render", "done"}
              /\ u.cap_obj_validated
              /\ u.captions = [i \in 1..5 |-> AICap("m", i)]

\* A parse failure that persisted after the strict retry, and a second pass
\* that failed too.
C5_Witness ==
    /\ pc = "done" /\ HardError
    /\ u.ai_calls = 2 /\ u.ai_error_stage = "parse"
    /\ ~u.captions_ai_used
    /\ u.captions = UncertainFallback

\* C6: a well-formed analysis result with safety.risk = high gives
\* fallback_used, no crop boxes, and fallback captions instead of the
\* captions of the result.
C6_HighRiskUsesFallbackCaptions ==
    [][(GoodReply("analyze") /\ reply.obj.risk = "high") =>
          /\ u'.fallback_used
          /\ u'.crop_boxes = <<>>
          /\ u'.captions \in StaticCaptionLists
    ]_vars

FiveSafe(texts) ==
    Cardinality({i \in DOMAIN texts : is_caption_safe(sanitize_caption(texts[i]))}) >= 5

\* The strict retry that followed a malformed first response has returned an
\* object that validates, is accepted by the business rules and has five safe
\* captions.
RetryAccepted ==
    /\ GoodReply("analyze") /\ strict_retry
    /\ calls[Len(calls)].error_hint = "parse_error"
    /\ ~PolicyFallback(reply.obj)
    /\ FiveSafe(reply.obj.captions)

FromAIResult(captions, texts) ==
    \A i \in DOMAIN captions : \E j \in DOMAIN texts : captions[i] = sanitize_caption(texts[j])

RetriedAfterMalformed ==
    \E i \in DOMAIN calls :
        calls[i].call = "analyze" /\ calls[i].strict_retry /\ calls[i].error_hint = "parse_error"

\* C7 as stated: malformed JSON, then an accepted result on the strict retry,
\* gives a response with ai_calls = 2, fallback_used = false and captions
\* that come from the service.  (used_ai without fallback_used is the case of
\* a result that validated, passed the business rules and had five safe
\* captions.)
C7_RetryUsesAICaptions ==
    (pc = "done" /\ RetriedAfterMalformed /\ u.used_ai /\ ~u.fallback_used) =>
        /\ u.ai_calls = 2
        /\ u.captions_source \in {"ai_original", "ai_crops"}

\* C7 amended: in that case ai_calls = 2 and fallback_used = false; the
\* captions are those of the AI result, or of the second-pass call when it
\* succeeds, except that with a mouth close-up prompt they are the static
\* mouth captions until the second-pass call succeeds.
C7_RetryAccepted ==
    /\ [][RetryAccepted =>
            /\ u'.ai_calls = 2
            /\ ~u'.fallback_used
            /\ u'.used_ai
            /\ FromAIResult(u'.model_captions, reply.obj.captions)
            /\ IF crop_preference = "mouth_closeup"
               THEN u'.captions_source = "mouth_fallback" /\ u'.captions = MouthBaseline
               ELSE u'.captions_source = "ai_original"
                    /\ FromAIResult(u'.captions, reply.obj.captions)
       ]_vars
    /\ []((pc = "done" /\ RetriedAfterMalformed /\ u.used_ai /\ ~u.fallback_used) =>
            /\ u.ai_calls = 2
            /\ \/ u.captions_source = "ai_original" /\ FromAIResult(u.captions, u.model_captions)
               \/ u.captions_source = "ai_crops" /\ u.captions_ai_used
                    /\ u.captions = [i \in 1..5 |-> AICap("m", i)]
               \/ /\ u.captions_source = "mouth_fallback"
                  /\ crop_preference = "mouth_closeup"
                  /\ ~u.captions_ai_used
                  /\ u.captions = MouthBaseline)

\* The retry was accepted and its captions are in the response.
C7_Witness ==
    /\ pc = "done" /\ RetriedAfterMalformed
    /\ u.used_ai /\ ~u.fallback_used /\ u.ai_calls = 2
    /\ u.captions_source = "ai_original"
    /\ u.captions = [i \in 1..5 |-> AICap("c", i)]

\* C8: an upload that cannot be decoded as an image gets fallback_used, the
\* first five captions of the pool of the label uncertain, no crop boxes, and
\* no call to the service, with or without credentials.
C8_UnreadableImage ==
    (Accepted /\ ~img_ok) =>
        /\ calls = <<>> /\ posts = <<>>
        /\ u.ai_calls = 0 /\ ~u.ai_attempted
        /\ pc \in {"start", "render", "done"}
        /\ pc \in {"render", "done"} =>
              /\ u.fallback_used
              /\ u.captions = UncertainFallback
              /\ u.crop_boxes = <<>>
              /\ u.crops_512 = <<>>
        /\ pc = "done" =>
              /\ response.status_code = 200
              /\ \A i \in 1..5 :
                    response.results[i].caption \in {u.captions[i], DefaultCaption}

\* An unreadable image answered while credentials are configured.
C8_Witness ==
    /\ pc = "done" /\ Accepted /\ ~img_ok /\ api_key
    /\ response.status_code = 200
    /\ u.fallback_used

\* C9: without an API key and with a readable image the response has
\* fallback_used and ai_calls = 0, and no request of either call type is sent.
C9_NoCredentials ==
    (Accepted /\ img_ok /\ ~api_key) =>
        /\ calls = <<>> /\ posts = <<>>
        /\ u.ai_calls = 0
        /\ pc \in {"start", "render", "done"}
        /\ pc \in {"render", "done"} => u.fallback_used
        /\ pc = "done" => response.status_code = 200

\* A readable image answered without credentials.
C9_Witness ==
    /\ pc = "done" /\ Accepted /\ img_ok /\ ~api_key
    /\ u.fallback_used /\ u.ai_calls = 0
    /\ Len(u.crops_512) = 5

\* A response of this call type has parsed and validated in this request.
Validated(call) ==
    \/ GoodReply(call)
    \/ IF call = "analyze" THEN u.used_ai ELSE u.cap_obj_validated

\* C10: once a response of a call type has parsed and validated, no further
\* call or post of that type is issued in the request, whatever the business
\* rules then decide.
C10_NoCallAfterValidResponse ==
    [][\A call \in CallTypes :
          Validated(call) =>
              /\ NCalls(calls', call) = NCalls(calls, call)
              /\ posts' # posts => \A i \in DOMAIN posts' : posts'[i].call # call
    ]_vars

\* Both stages received a well-formed response that the business rules turned down.
C10_Witness ==
    /\ pc = "done"
    /\ u.used_ai /\ u.fallback_used /\ u.fallback_reason = "policy"
    /\ u.cap_obj_validated /\ u.captions_ai_error = "captions_safety_fallback"

\* The locals without the texts of the error messages.
WithoutMessages(loc) ==
    [loc EXCEPT !.ai_error = "", !.fallback_reason = "", !.captions_ai_error = ""]

\* The post that was just answered ended in a transport-level exception.
TimedOut(got) == pc = got /\ LastPost.status = "timeout"

\* C11: a timeout (transport exception) of a post ends its call: no post is
\* re-issued and no strict retry is started; the pipeline goes on as it does
\* after a terminal HTTP error (the locals differ at most in the error text):
\* after an analysis call the local fallback is used, after a second-pass call
\* the captions stay as they were.  A timeout of the first analysis call
\* leaves ai_calls = 1 and fallback_used = true.
C11_TimeoutIsTerminal ==
    /\ [][TimedOut("analyze_got") =>
            /\ pc' \in {"montage_wait", "render"}
            /\ NCalls(calls', "analyze") = NCalls(calls, "analyze")
            /\ calls'[NCalls(calls, "analyze")].outcome = "raised"
            /\ \A i \in DOMAIN posts' : posts'[i].call # "analyze"
            /\ u'.ai_calls = u.ai_calls
            /\ u'.fallback_used /\ ~u'.used_ai /\ u'.crop_boxes = <<>>
            /\ WithoutMessages(u') = WithoutMessages(make_crops(analysis_failed(u, "http_error")))
            /\ (~strict_retry) => (u'.ai_calls = 1 /\ u'.ai_error_stage = "http")
       ]_vars
    /\ [][TimedOut("montage_got") =>
            /\ pc' = "render"
            /\ posts' = <<>>
            /\ Len(calls') = Len(calls)
            /\ calls'[Len(calls)].outcome = "raised"
            /\ WithoutMessages(u') = WithoutMessages(captions_failed(u, "http_error"))
            /\ u'.captions = u.captions /\ ~u'.captions_ai_used
       ]_vars
    /\ []((pc = "done" /\ NCalls(calls, "analyze") = 1 /\ calls[1].outcome = "raised"
              /\ u.ai_error = "timeout") =>
            (u.ai_calls = 1 /\ u.fallback_used /\ response.status_code = 200))

\* The first analysis call timed out and the request was answered.
C11_Witness ==
    /\ pc = "done"
    /\ NCalls(calls, "analyze") = 1 /\ calls[1].outcome = "raised"
    /\ u.ai_error = "timeout" /\ u.ai_error_stage = "http"
    /\ u.ai_calls = 1 /\ u.fallback_used
    /\ response.status_code = 200

\* C12: while the external call of one request is blocked waiting for the
\* service, another request whose coroutine has a step to take (it has not
\* started, or its upload has been read) can take that step.
C12_BlockedCallStallsOnlyItsRequest ==
    \A r \in DOMAIN rpc, s \in DOMAIN rpc :
        (r # s /\ rpc[r] = "blocked" /\ rpc[s] \in {"new", "ready"}) => ENABLED UploadStep(s)

\* C13: pick_top_5 returns exactly target candidates, each one of the given
\* candidates, whenever there is at least one candidate (target >= 1,
\* max_mouth >= 0, any mix of face and mouth candidates).
C13_ExactlyTarget ==
    (pc = "pick_done" /\ fn_in.candidates # <<>>) =>
        /\ Len(fn_out) = fn_in.target
        /\ \A i \in DOMAIN fn_out : \E j \in DOMAIN fn_in.candidates : fn_out[i] = fn_in.candidates[j]

\* A single candidate repeated to fill five places.
C13_Witness ==
    /\ pc = "pick_done"
    /\ Len(fn_in.candidates) = 1 /\ fn_in.target = 5 /\ fn_in.max_mouth = 0
    /\ fn_in.candidates[1].crop_type = "mouth"
    /\ fn_out = [i \in 1..5 |-> fn_in.candidates[1]]

\* Face candidates with distinct (src_index, crop_type) keys.
DistinctFaces(candidates) ==
    Cardinality({candidates[i].src_index : i \in {j \in DOMAIN candidates : candidates[j].crop_type = "face"}})

\* C14: the list returned by pick_top_5 holds at most max_mouth mouth
\* entries, repeated entries counted, whenever the candidates include at
\* least target - max_mouth face candidates with distinct keys.
C14_MouthLimit ==
    (pc = "pick_done" /\ DistinctFaces(fn_in.candidates) >= fn_in.target - fn_in.max_mouth) =>
        MouthCount(fn_out) <= fn_in.max_mouth

\* Fewer candidates than places: the padding repeats a mouth candidate and
\* the returned list holds exactly max_mouth mouth entries.
C14_Witness ==
    /\ pc = "pick_done"
    /\ DistinctFaces(fn_in.candidates) >= fn_in.target - fn_in.max_mouth
    /\ Len(fn_in.candidates) < fn_in.target
    /\ MouthCount(fn_out) = fn_in.max_mouth
    /\ MouthCount(fn_in.candidates) < fn_in.max_mouth
    /\ Len(fn_out) = fn_in.target

\* extract_json_object returned the object the text was made of.
ReturnsObject == fn_out.ok /\ fn_out.obj = fn_in.obj

\* C15: extract_json_object returns O for the serialization of a JSON object
\* O, and for that serialization wrapped in a code fence with or without the
\* word json.
C15_RoundTrip ==
    (pc = "extract_done" /\ fn_in.kind \in {"dump", "fence", "fence_json"}) => ReturnsObject

\* A fenced object with a nested object and a string that holds braces.
C15_Witness ==
    /\ pc = "extract_done"
    /\ fn_in.kind = "fence_json"
    /\ Len(fn_in.obj.v) = 2
    /\ fn_in.obj.v[1][2] = JStr(<<"{", ",", " ", "]">>)
    /\ fn_in.obj.v[2][2].t = "obj"
    /\ ReturnsObject

\* C16: extract_json_object returns exactly O for the serialization of O with
\* one trailing comma put before a closing brace or bracket, also when the
\* strings of O hold commas, braces or brackets.
C16_TrailingCommaRoundTrip ==
    (pc = "extract_done" /\ fn_in.kind = "trailing_comma") => ReturnsObject

\* C17: extract_json_object raises for an empty or blank text, for a text
\* without parseable JSON, and for JSON that is an array (also one that
\* holds objects) or a scalar.
C17_RejectsNonObjects ==
    (pc = "extract_done" /\ fn_in.kind \in {"empty", "blank", "no_json", "array", "scalar"}) =>
        ~fn_out.ok

\* The crop box is a square of at least 1 px inside an image of w x h pixels.
IsSquare(rect) == RectW(rect) = RectH(rect)
InsideImage(rect, w, h) == 0 <= rect.l /\ rect.l <= rect.r /\ rect.r <= w /\ 0 <= rect.t /\ rect.t <= rect.b /\ rect.b <= h

\* C18: for an image whose shorter side is at least 2 px, whatever candidate
\* the search selects, auto_focus_square_crop returns a square of side 1 to
\* min(width, height) inside the image, and exactly the center square when
\* the shorter side is under 96 px.
C18_AutoFocusInBounds ==
    (pc = "crop_done" /\ fn_in.fn = "auto_focus_square_crop" /\ Min2(fn_in.w, fn_in.h) >= 2) =>
        /\ IsSquare(fn_out.rect)
        /\ RectW(fn_out.rect) >= 1 /\ RectW(fn_out.rect) <= Min2(fn_in.w, fn_in.h)
        /\ InsideImage(fn_out.rect, fn_in.w, fn_in.h)
        /\ Min2(fn_in.w, fn_in.h) < 96 =>
              fn_out.rect = center_square_crop(Rect(0, 0, fn_in.w, fn_in.h))

\* The search of a downscaled 700 x 330 image selected the rightmost window
\* of its grid: 117 px at x = 203 of the 320 x 150 copy, 255 px at x = 444
\* of the image.
C18_Witness ==
    /\ pc = "crop_done" /\ fn_in.fn = "auto_focus_square_crop"
    /\ fn_in.w = 700 /\ fn_in.h = 330
    /\ fn_in.best[1] = 203 /\ fn_in.best[3] = 117
    /\ fn_out.path = "grid"
    /\ fn_out.rect.l = 444 /\ fn_out.rect.r = 699
    /\ IsSquare(fn_out.rect) /\ RectW(fn_out.rect) = 255

\* C19: for a valid box square_from_box returns a square inside the image;
\* either the pixel rectangle of the box is over 10 px wide and high and the
\* side of the square is over 10 px, or the function went on to
\* auto_focus_square_crop.
C19_SquareFromBox ==
    (pc = "crop_done" /\ fn_in.fn = "square_from_box") =>
        /\ IsSquare(fn_out.rect)
        /\ InsideImage(fn_out.rect, fn_in.w, fn_in.h)
        /\ \/ /\ fn_out.path = "box"
              /\ RectW(fn_out.box_rect) > 10 /\ RectH(fn_out.box_rect) > 10
              /\ RectW(fn_out.rect) > 10
           \/ /\ fn_out.path = "auto_focus"
              /\ fn_out.rect = auto_focus_square_crop(fn_in.w, fn_in.h, fn_in.best).rect

\* A box at the lower right corner whose rectangle was moved into the image.
C19_Witness ==
    /\ pc = "crop_done" /\ fn_in.fn = "square_from_box"
    /\ fn_in.box = [x |-> 100, y |-> 100, w |-> 50, h |-> 50]
    /\ fn_in.w = 330 /\ fn_in.h = 124
    /\ fn_out.path = "box"
    /\ fn_out.rect.r = 330 /\ fn_out.rect.b = 124

\* C20: for an image with both sides of at least 2 px, every variant and
\* every valid box, both mouth close-up functions return a square of side at
\* least 1 px inside the image.
C20_MouthCloseupInBounds ==
    (/\ pc = "crop_done"
     /\ fn_in.fn \in {"mouth_closeup_square_crop", "mouth_closeup_square_crop_global"}
     /\ fn_in.w >= 2 /\ fn_in.h >= 2) =>
        /\ IsSquare(fn_out.rect)
        /\ RectW(fn_out.rect) >= 1
        /\ InsideImage(fn_out.rect, fn_in.w, fn_in.h)

\* The region the mouth locator looks at: the region of the box, or the upper
\* 78 % of the image when there is no box (line 267-268).
MouthRegion(fn, w, h, box) ==
    IF fn = "mouth_closeup_square_crop" THEN crop_rect_from_box(w, h, box)
    ELSE Rect(0, 0, w, Max2(1, (h * 78) \div 100))

\* The crop boxes of the five variants that make_512_crops asks for (lines
\* 458-465), for one image, box and answer of the mouth locator.
VariantRects(fn, w, h, box, mouth) ==
    {IF fn = "mouth_closeup_square_crop" THEN mouth_closeup_square_crop(w, h, box, variant, mouth)
     ELSE mouth_closeup_square_crop_global(w, h, variant, mouth) : variant \in 0..4}

\* C21: for an image and box whose region is at least 20 px on its shorter
\* side, and any answer of the mouth locator, the crop boxes of the variants
\* 0 to 4 are not all the same.
C21_VariantsDiffer ==
    (/\ pc = "crop_done"
     /\ fn_in.fn \in {"mouth_closeup_square_crop", "mouth_closeup_square_crop_global"}
     /\ LET roi == MouthRegion(fn_in.fn, fn_in.w, fn_in.h, fn_in.box)
        IN  Min2(RectW(roi), RectH(roi)) >= 20) =>
        Cardinality(VariantRects(fn_in.fn, fn_in.w, fn_in.h, fn_in.box, fn_in.mouth)) > 1

\* The same for mouth_closeup_square_crop alone, whose square is 0.52 of the
\* region and moves by over 1 px between the variants.
C21_BoxVariantsDiffer ==
    (/\ pc = "crop_done"
     /\ fn_in.fn = "mouth_closeup_square_crop"
     /\ LET roi == MouthRegion(fn_in.fn, fn_in.w, fn_in.h, fn_in.box)
        IN  Min2(RectW(roi), RectH(roi)) >= 20) =>
        Cardinality(VariantRects(fn_in.fn, fn_in.w, fn_in.h, fn_in.box, fn_in.mouth)) > 1

\* The message of a strict retry: temperature 0, the retry instructions, the
\* error message cut to HintMax characters and the previous raw output cut to
\* PrevMax characters.
RetryContext(call) ==
    (pc = "prompt_done" /\ fn_in.call = call /\ fn_in.strict_retry) =>
        /\ fn_out.temperature = 0
        /\ fn_out.message.retry
        /\ fn_out.message.hint_len = Min2(fn_in.e1.core, HintMax)
        /\ fn_out.message.hint_len > 0
        /\ fn_in.content1.core > 0 =>
              /\ fn_out.message.with_previous
              /\ fn_out.message.previous_len = Min2(fn_in.content1.core, PrevMax)

NoRetryContext ==
    (pc = "prompt_done" /\ ~fn_in.strict_retry) =>
        /\ ~fn_out.message.retry
        /\ fn_out.message.hint_len = 0
        /\ ~fn_out.message.with_previous

\* C22: every strict retry, of either call, is sent with temperature 0, the
\* error message of the failed attempt cut to 180 characters and the previous
\* raw output cut to 1800 characters; a call that is not a retry never has
\* these instructions.
C22_StrictRetryContext ==
    /\ RetryContext("analyze")
    /\ RetryContext("montage")
    /\ NoRetryContext

\* The same for analyze_image alone, the one call that is given the previous
\* output.
C22_AnalyzeRetryContext ==
    /\ RetryContext("analyze")
    /\ NoRetryContext

\* The sanitized forms of the candidates whose sanitized form passes
\* is_caption_safe, in the order of the candidates.
SanitizedSafe(candidates) ==
    SelectSeq([i \in 1..Len(candidates) |-> sanitize_caption(candidates[i])],
              LAMBDA s : is_caption_safe(s))

PoolOf(label) == {CAPTIONS_FALLBACK[label][i] : i \in 1..Len(CAPTIONS_FALLBACK[label])}

\* C23: ensure_5_safe_captions returns the sanitized forms of the first five
\* candidates that pass the safety check, in their order; with fewer than
\* five, these are a prefix of the result and the other places hold captions
\* of the fallback pool of fallback_label; the flag is true exactly when
\* fewer than five passed.
C23_FirstFiveThenPool ==
    pc = "fn_done" =>
        LET kept == SanitizedSafe(fn_in.candidates)
            n == Len(kept)
        IN  /\ Len(fn_out.captions) = 5
            /\ fn_out.fallback = (n < 5)
            /\ \A i \in 1..Min2(n, 5) : fn_out.captions[i] = kept[i]
            /\ fn_in.fallback_label \in ExpressionLabels =>
                  \A i \in (n + 1)..5 : fn_out.captions[i] \in PoolOf(fn_in.fallback_label)

\* Two candidates pass, one of them changed by sanitize_caption, one candidate
\* between them is rejected, and three places are filled from the pool.
C23_Witness ==
    /\ pc = "fn_done"
    /\ fn_out.fallback
    /\ Len(SanitizedSafe(fn_in.candidates)) = 2
    /\ Len(fn_in.candidates) = 3
    /\ fn_in.candidates[3] = <<".", " ", "a">>
    /\ fn_out.captions[2] = <<" ", "a">>
    /\ fn_in.fallback_label = "happy"
    /\ fn_out.captions[5] = CAPTIONS_FALLBACK["happy"][5]

Collapsed(text) ==
    \A i \in 1..(Len(text) - 1) : ~(text[i] \in Whitespace /\ text[i + 1] \in Whitespace)

\* C24: sanitize_caption returns a text in which no two whitespace characters
\* follow each other, without zero-width characters and without punctuation
\* at its ends, and never an empty or blank text.
C24_SanitizedCaption ==
    pc = "sanitize_done" =>
        /\ Collapsed(fn_out)
        /\ \A k \in 1..Len(fn_out) : fn_out[k] # "u200B"
        /\ fn_out # <<>>
        /\ fn_out[1] \notin StripPunctuation /\ fn_out[Len(fn_out)] \notin StripPunctuation
        /\ Strip(fn_out, Whitespace) # <<>>

\* What the function does keep: its result is never empty and holds no
\* zero-width character and no punctuation at its ends.
C24_NeverEmpty ==
    pc = "sanitize_done" =>
        /\ fn_out # <<>>
        /\ \A k \in 1..Len(fn_out) : fn_out[k] # "u200B"
        /\ fn_out[1] \notin StripPunctuation /\ fn_out[Len(fn_out)] \notin StripPunctuation

\* The candidates chosen when the fill passes end (lines 134-144).
Chosen(candidates, max_mouth, target) ==
    LET ranked == RankedOf(candidates)
        s4 == fill_passes(ranked, max_mouth, target)
    IN  IF s4 = <<>> THEN <<ranked[1]>> ELSE s4

\* C25: when the fill passes end with k chosen candidates, 1 <= k < target,
\* the places k .. target-1 of the result repeat the chosen candidates in
\* turn: result[i] = selected[i mod k].
C25_CyclicPadding ==
    (pc = "pick_done" /\ fn_in.candidates # <<>>) =>
        LET selected == Chosen(fn_in.candidates, fn_in.max_mouth, fn_in.target)
            k == Len(selected)
        IN  (1 <= k /\ k < fn_in.target) =>
                \A i \in k..(fn_in.target - 1) : fn_out[i + 1] = selected[(i % k) + 1]

\* What the loop of lines 145-146 does: every added place repeats the first
\* chosen candidate.
C25_PaddingRepeatsFirst ==
    (pc = "pick_done" /\ fn_in.candidates # <<>>) =>
        LET selected == Chosen(fn_in.candidates, fn_in.max_mouth, fn_in.target)
            k == Len(selected)
        IN  /\ \A i \in 1..Min2(k, fn_in.target) : fn_out[i] = selected[i]
            /\ \A i \in (k + 1)..fn_in.target : fn_out[i] = selected[1]

SourcesDistinct(list) ==
    \A i \in DOMAIN list, j \in DOMAIN list : i # j => list[i].src_index # list[j].src_index

KeysDistinct(list) ==
    \A i \in DOMAIN list, j \in DOMAIN list :
        i # j => (list[i].src_index # list[j].src_index \/ list[i].crop_type # list[j].crop_type)

\* C26: the result holds two candidates of one source image only if the pass
\* with max_per_image = 1 did not fill the target places; with face candidates
\* of at least target distinct images the returned candidates come from
\* pairwise distinct images; the fill passes never choose a
\* (src_index, crop_type) key twice.
C26_DiversityPreferred ==
    (pc = "pick_done" /\ fn_in.candidates # <<>>) =>
        LET ranked == RankedOf(fn_in.candidates)
            first_pass == FillSelected(<<>>, ranked, 1, 1, fn_in.max_mouth, fn_in.target)
        IN  /\ ~SourcesDistinct(fn_out) => Len(first_pass) < fn_in.target
            /\ DistinctFaces(fn_in.candidates) >= fn_in.target => SourcesDistinct(fn_out)
            /\ KeysDistinct(fill_passes(ranked, fn_in.max_mouth, fn_in.target))

\* Two images and three places: the first pass leaves out the second
\* candidate, of the same image as the best one, and takes the other image;
\* the pass with max_per_image = 2 then adds it.
C26_Witness ==
    /\ pc = "pick_done"
    /\ fn_in.target = 3 /\ Len(fn_in.candidates) = 3 /\ fn_in.max_mouth = 1
    /\ fn_in.candidates[1] = [src_index |-> 0, crop_type |-> "mouth", score |-> 2]
    /\ fn_in.candidates[2] = [src_index |-> 0, crop_type |-> "face", score |-> 2]
    /\ fn_in.candidates[3] = [src_index |-> 1, crop_type |-> "face", score |-> 1]
    /\ fn_out = <<fn_in.candidates[1], fn_in.candidates[3], fn_in.candidates[2]>>

\* The five crops have been made (line 281): the upload was accepted, the
\* image was readable and the analysis stage is over.
CropsMade == Accepted /\ img_ok /\ AfterAnalysisStage

\* C27: when the crops are made, crop boxes are present only if the AI plan
\* was accepted (used_ai and no fallback) and only then a crop is cut from a
\* box; whenever fallback_used holds there is no crop box and every crop is a
\* heuristic one.
C27_BoxesOnlyWhenAccepted ==
    /\ CropsMade =>
          /\ Len(u.crops_512) = 5
          /\ u.crop_boxes # <<>> => (u.used_ai /\ ~u.fallback_used)
          /\ \A i \in 1..5 : u.crops_512[i].box # NoBox => u.crop_boxes # <<>>
    /\ u.fallback_used =>
          /\ u.crop_boxes = <<>>
          /\ \A i \in DOMAIN u.crops_512 : u.crops_512[i].box = NoBox
          /\ CropsMade => AllCropsHeuristic

\* An accepted plan with one box: all five crops are cut from it.
C27_Witness ==
    /\ pc = "done" /\ img_ok
    /\ u.used_ai /\ ~u.fallback_used
    /\ u.crop_boxes = <<1, 1, 1, 1, 1>>
    /\ \A i \in 1..5 : u.crops_512[i].box = 1

\* A plan with boxes that the business rules turned down: heuristic crops.
C27_WitnessFallback ==
    /\ pc = "done" /\ img_ok
    /\ u.used_ai /\ u.fallback_used
    /\ AllCropsHeuristic

\* C28: in every response fallback_used holds exactly when fallback_reason is
\* a non-empty string, and within a request fallback_used, once true, is not
\* set back to false by any later step, a successful second-pass captions
\* call included.
C28_FallbackFlagAndReason ==
    /\ [](pc = "done" => (u.fallback_used <=> u.fallback_reason # ""))
    /\ [][u.fallback_used => u'.fallback_used]_vars

\* The business rules turned the plan down and the second-pass call then
\* succeeded: the response has the flag, the reason and the captions of the
\* second pass.
C28_Witness ==
    /\ pc = "done" /\ response.status_code = 200
    /\ u.used_ai /\ u.fallback_used /\ u.fallback_reason = "policy"
    /\ u.captions_ai_used /\ u.captions_source = "ai_crops"

\* The second-pass call has answered with a response that parsed, validated,
\* passed the business rules and holds five safe captions.
SecondPassSucceeds ==
    /\ GoodReply("montage")
    /\ ~PolicyFallback(reply.obj)
    /\ Len(SanitizedSafe(reply.obj.captions)) >= 5

\* C29: the second-pass stage either succeeds, replacing all five captions
\* with captions_ai_used = true and captions_source = "ai_crops", or fails and
\* leaves the five captions as they were before the stage; either way
\* fallback_used, fallback_reason, ai_calls, used_ai, expression_label and the
\* five crops stay as they were.
C29_SecondPassAllOrNothing ==
    [][(pc \in {"montage_wait", "montage_got"}) =>
          /\ u'.fallback_used = u.fallback_used
          /\ u'.fallback_reason = u.fallback_reason
          /\ u'.ai_calls = u.ai_calls
          /\ u'.used_ai = u.used_ai
          /\ u'.expression_label = u.expression_label
          /\ u'.crops_512 = u.crops_512
          /\ IF pc = "montage_got" /\ pc' = "render" /\ SecondPassSucceeds
             THEN /\ u'.captions = SubSeq(SanitizedSafe(reply.obj.captions), 1, 5)
                  /\ u'.captions_ai_used
                  /\ u'.captions_source = "ai_crops"
             ELSE /\ u'.captions = u.captions
                  /\ u'.captions_ai_used = u.captions_ai_used
                  /\ u'.captions_source = u.captions_source
                  /\ ~u'.captions_ai_used
    ]_vars

\* Both attempts of the second pass were malformed: the response keeps the
\* captions of the accepted analysis.
C29_Witness ==
    /\ pc = "done" /\ response.status_code = 200
    /\ u.used_ai /\ ~u.fallback_used
    /\ NCalls(calls, "montage") = 2
    /\ u.captions_ai_error = "parse_error"
    /\ ~u.captions_ai_used /\ u.captions_source = "ai_original"
    /\ u.captions = [i \in 1..5 |-> AICap("c", i)]

\* The first analyze_image call raised: no content reached _try_ai.
FirstCallFailed ==
    LET cs == CallsOf("analyze") IN cs # <<>> /\ cs[1].outcome = "raised"

\* C30: in every response used_ai implies an empty ai_error_stage and
\* ai_error; when the analysis was attempted and not accepted, ai_error_stage
\* is parse, validate or http, and http exactly when the first call itself
\* failed; a failed strict retry keeps the stage of the first failure.
C30_ErrorStage ==
    (pc = "done" /\ response.status_code = 200) =>
        /\ u.used_ai => (u.ai_error_stage = "" /\ u.ai_error = "")
        /\ (u.ai_attempted /\ ~u.used_ai) =>
              /\ u.ai_error_stage \in {"parse", "validate", "http"}
              /\ u.ai_error_stage = "http" <=> FirstCallFailed
              /\ u.ai_error_stage # "http" =>
                    LET cs == CallsOf("analyze")
                    IN  /\ Len(cs) = 2 /\ cs[2].strict_retry
                        /\ cs[2].error_hint = (IF u.ai_error_stage = "parse" THEN "parse_error"
                                               ELSE "validation_error")
                        /\ u.ai_error = cs[2].error_hint

\* The first response did not validate and the strict retry timed out: the
\* stage stays validate.
C30_Witness ==
    /\ pc = "done" /\ response.status_code = 200
    /\ u.ai_attempted /\ ~u.used_ai /\ u.ai_calls = 2
    /\ u.ai_error_stage = "validate"
    /\ CallsOf("analyze")[2].outcome = "raised"
    /\ u.fallback_reason = "timeout"

====
